---- MODULE Spec2Model ----
(***************************************************************************)
(* Model of the content script of the expense-form auto-fill extension     *)
(* (src/src/contentScript.ts): the field locator, the three field writers, *)
(* the review annotator, the fill pass (fillExpenseForm) and the page      *)
(* lifecycle watcher.                                                      *)
(*                                                                         *)
(* Strings are sequences of pieces (short string tokens), so that trim,    *)
(* toLowerCase, includes and the regular expressions of the source are     *)
(* computed and not tabulated.  Confidences are integers in percent.  Time *)
(* is in milliseconds.                                                     *)
(***************************************************************************)
EXTENDS Integers, Sequences, FiniteSets, TLC

VARIABLES
  page,                \* the host document: which form page is shown
  dom,                 \* state of the control of every field group of the page
  activeElement,       \* index of the group holding the focus, 0 for none
  hidden,              \* document.hidden
  tzWest,              \* the local time zone is west of UTC
  href,                \* location.href
  now,                 \* Date.now()
  timers,              \* pending setTimeout callbacks
  pendingFormData,     \* <<>> for null, <<record>> otherwise
  lastUrl,
  lastFormFieldsCount,
  isRefilling,
  lastUserInteraction,
  refillCount,
  clickListeners,      \* number of registered document click listeners for Next
  envSteps,            \* number of user and host events so far
  summary,             \* FillSummary of the last pass, <<>> before the first
  log,                 \* events dispatched and annotations made by the last pass
  passes,              \* number of fillExpenseForm invocations so far
  edits,               \* number of user edits so far
  lastOp,              \* the last step taken
  pendingPDFFileData,  \* <<>> for null, <<file>> otherwise
  upload,              \* the host's file-upload area of the page
  uploads,             \* pending setTimeout callbacks of the attachment agent
  polls,               \* running upload polls (checkInterval) with their checkCount
  urlCheckInterval,    \* TRUE while the URL poll is running
  assigned,            \* the files assigned to a file input of the host, in order
  attempt,             \* how the last attachment attempt ended
  popup                \* the popup's attempt and the background worker's reply

domVars   == <<page, dom, activeElement, hidden, tzWest, href>>
watchVars == <<pendingFormData, lastUrl, lastFormFieldsCount, isRefilling,
               lastUserInteraction, refillCount, clickListeners>>
passVars  == <<summary, log, passes>>
attachVars == <<pendingPDFFileData, upload, uploads, polls, urlCheckInterval, assigned,
                attempt>>
vars == <<domVars, now, timers, watchVars, passVars, edits, envSteps, lastOp, attachVars,
         popup>>

(***************************************************************************)
(* Program constants                                                       *)
(***************************************************************************)
CONFIDENCE_THRESHOLD == 80
UNKNOWN_THRESHOLD == 50
MAX_REFILLS_PER_PAGE == 1
INTERACTION_COOLDOWN == 5000
DEBOUNCE_DELAY == 2000
REFILLING_RESET_DELAY == 2000
NEXT_CLICK_DELAY == 1200
URL_CHANGE_DELAY == 1500
POPSTATE_DELAY == 800
OBSERVER_INIT_DELAY == 1500
GROUPS_TO_CHECK == 10
MIN_EMPTY_FIELDS == 3
IMMEDIATE_UPLOAD_DELAY == 100
OBSERVER_UPLOAD_DELAY == 50
UPLOAD_SETTLE_DELAY == 2000
UPLOAD_POLL_PERIOD == 1000
maxChecks == 20

(***************************************************************************)
(* Bounds of the model                                                     *)
(***************************************************************************)
\* fill passes and user edits on a page with one field group
MaxPasses == 2
MaxEdits == 1
\* events from outside (commands, edits, clicks, navigations) in a lifecycle
MaxEvents == 3
\* milliseconds of the lifecycle after the content script has loaded
MaxTime == 4000
\* milliseconds after the load within which the events from outside occur
MaxEventTime == 1000
MaxClicks == 2

(***************************************************************************)
(* Strings                                                                 *)
(***************************************************************************)
WS == {" ", "\n", "\t"}

\* the pieces that contain capital letters, with their lower-case forms
LowerTable ==
  "N/A" :> "n/a" @@
  "NA" :> "na" @@
  "None" :> "none" @@
  "Unknown" :> "unknown" @@
  "Acme" :> "acme" @@
  "Bolt" :> "bolt" @@
  "Other" :> "other" @@
  "Co." :> "co." @@
  "Purchaser" :> "purchaser" @@
  "Name" :> "name" @@
  "NetID" :> "netid" @@
  "Club" :> "club" @@
  "Organization" :> "organization" @@
  "Payment" :> "payment" @@
  "Method" :> "method" @@
  "Vendor" :> "vendor" @@
  "Date" :> "date" @@
  "Expense" :> "expense" @@
  "Amount" :> "amount" @@
  "Purchase" :> "purchase" @@
  "Type" :> "type" @@
  "Include" :> "include" @@
  "NYU" :> "nyu" @@
  "Engage" :> "engage" @@
  "In" :> "in" @@
  "Select" :> "select" @@
  "Chess" :> "chess" @@
  "Juniors" :> "juniors" @@
  "Spending" :> "spending" @@
  "Card" :> "card" @@
  "Out" :> "out" @@
  "Food" :> "food" @@
  "Apparel" :> "apparel" @@
  "Lunch" :> "lunch"

LowerPiece(p) == IF p \in DOMAIN LowerTable THEN LowerTable[p] ELSE p

toLowerCase(s) == IF s = <<>> THEN <<>> ELSE [i \in 1..Len(s) |-> LowerPiece(s[i])]

RECURSIVE trimStart(_)
trimStart(s) == IF s = <<>> THEN <<>>
                ELSE IF Head(s) \in WS THEN trimStart(Tail(s)) ELSE s

RECURSIVE trimEnd(_)
trimEnd(s) == IF s = <<>> THEN <<>>
              ELSE IF s[Len(s)] \in WS THEN trimEnd(SubSeq(s, 1, Len(s) - 1)) ELSE s

trim(s) == trimEnd(trimStart(s))

\* a.includes(b)
includes(a, b) == \E i \in 0..(Len(a) - Len(b)) : SubSeq(a, i + 1, i + Len(b)) = b

\* text.replace(/\s+/g, ' '): every run of white space becomes one space
RECURSIVE collapseWs(_)
collapseWs(s) ==
  IF s = <<>> THEN <<>>
  ELSE IF Head(s) \in WS
       THEN <<" ">> \o collapseWs(trimStart(s))
       ELSE <<Head(s)>> \o collapseWs(Tail(s))

normalizeText(text) == toLowerCase(trim(collapseWs(text)))

(***************************************************************************)
(* Regular expressions of the source: literal segments joined by ".*",     *)
(* all with the i flag.  A regex is a sequence of lower-case literals.     *)
(***************************************************************************)
RECURSIVE matchFrom(_, _)
matchFrom(segs, t) ==
  IF segs = <<>> THEN TRUE
  ELSE \E i \in 0..(Len(t) - Len(Head(segs))) :
         /\ SubSeq(t, i + 1, i + Len(Head(segs))) = Head(segs)
         /\ matchFrom(Tail(segs), SubSeq(t, i + Len(Head(segs)) + 1, Len(t)))

\* regex.test(text) for a regex with the i flag
test(regex, text) == matchFrom(regex, toLowerCase(text))

\* the words of ws joined by single spaces
RECURSIVE words(_)
words(ws) == IF Len(ws) <= 1 THEN ws ELSE <<Head(ws), " ">> \o words(Tail(ws))

(***************************************************************************)
(* The parsed record (ParsedExpenseData) and the fill results              *)
(***************************************************************************)
Keys == <<"purchaser_name", "netid", "club_name", "payment_method", "vendor_name",
          "date_of_expense", "total_amount", "purchase_type", "event_link",
          "description">>

KeySet == {Keys[i] : i \in 1..Len(Keys)}

Undefined == <<"<undefined>">>

FillResult(fieldName, filled, confidence, value, needsReview) ==
  [fieldName |-> fieldName, filled |-> filled, confidence |-> confidence,
   value |-> value, needsReview |-> needsReview]

(***************************************************************************)
(* The host document.  A page is a sequence of field groups (.form-group); *)
(* the structure of a page is fixed, the state of its controls is in dom.  *)
(***************************************************************************)
NoLabel == <<"<no label-set>">>

Group(label, kind, options, radios) ==
  [label |-> label, kind |-> kind, options |-> options, radios |-> radios]

TextGroup(label) == Group(label, "text", <<>>, <<>>)

ClubOptions ==
  << [value |-> "-1", text |-> words(<<"Select", "one">>)],
     [value |-> "1", text |-> words(<<"Chess", "Club">>)],
     [value |-> "2", text |-> words(<<"Chess", "Club", "Juniors">>)] >>

PaymentRadios ==
  << words(<<"Club", "Spending", "Card">>) \o <<" ", "(", "with", " ", "additional", " ", "funding", ")">>,
     words(<<"Club", "Spending", "Card">>) \o <<" ", "(", "with", "out", " ", "additional", " ", "funding", ")">>,
     words(<<"Out", "of", "pocket">>) >>

PurchaseRadios == << <<"Food">>, <<"Apparel">>, <<"Subscription">>, <<"Other">> >>

FormGroups ==
  << TextGroup(words(<<"Purchaser", "Name">>)),
     TextGroup(<<"Purchaser", "'s", " ", "NetID">>),
     Group(<<"Club", "/", "Organization">>, "select", ClubOptions, <<>>),
     Group(words(<<"Payment", "Method">>), "radio", <<>>, PaymentRadios),
     TextGroup(<<"\n", " ", "Vendor", " ", " ", "Name", "\n">>),
     TextGroup(words(<<"Date", "of", "Expense">>)),
     TextGroup(words(<<"Expense", "Amount">>)),
     Group(words(<<"Purchase", "Type">>), "radio", <<>>, PurchaseRadios),
     TextGroup(words(<<"Include", "the", "link", "to", "the", "applicable", "NYU", "Engage", "event">>)),
     TextGroup(words(<<"In", "a", "few", "sentences", "describe", "the", "reason", "for", "the", "purchase">>)) >>

\* another rendering of four groups: a select whose placeholder option has
\* no text, the label-sets of a text field and of a radio group without any
\* control, and the payment choices in another order
PlaceholderOptions ==
  << [value |-> "-1", text |-> <<>>],
     [value |-> "1", text |-> words(<<"Chess", "Club">>)],
     [value |-> "2", text |-> words(<<"Chess", "Club", "Juniors">>)] >>

ReorderedRadios == <<PaymentRadios[2], PaymentRadios[3], PaymentRadios[1]>>

VariantGroups ==
  << Group(<<"Club", "/", "Organization">>, "select", PlaceholderOptions, <<>>),
     Group(<<"\n", " ", "Vendor", " ", " ", "Name", "\n">>, "none", <<>>, <<>>),
     Group(words(<<"Purchase", "Type">>), "none", <<>>, <<>>),
     Group(words(<<"Payment", "Method">>), "radio", <<>>, ReorderedRadios) >>

\* page k (1..10) shows only the k-th group of the form, FormPage the whole
\* form, and BlankPage is a page of the flow without any field group
FormPage == Len(FormGroups) + 1
BlankPage == Len(FormGroups) + 2
VariantPage == Len(FormGroups) + 3
SinglePages == 1..Len(FormGroups)
PageIds == {FormPage, BlankPage, VariantPage} \cup SinglePages

Pages(p) == IF p = FormPage THEN FormGroups
            ELSE IF p \in SinglePages THEN <<FormGroups[p]>>
            ELSE IF p = VariantPage THEN VariantGroups
            ELSE <<>>

\* two URLs are enough to tell a changed location from an unchanged one
Urls == {"url-a", "url-b"}
OtherUrl(u) == IF u = "url-a" THEN "url-b" ELSE "url-a"

\* low and unk are the titles of the elements of class
\* expense-autofill-warning and expense-autofill-unknown in the group, in
\* document order; NoTip: there is no such element
NoTip == <<>>

Ctl(value, sel, checked) ==
  [value |-> value, sel |-> sel, checked |-> checked, marked |-> FALSE,
   wrote |-> FALSE, low |-> NoTip, unk |-> NoTip]

\* the control of a group as the host renders it
BlankCtl(g) == Ctl(<<>>, IF g.kind = "select" THEN "-1" ELSE "", 0)

BlankDom(p) == [i \in 1..Len(Pages(p)) |-> BlankCtl(Pages(p)[i])]

(***************************************************************************)
(* Field Locator                                                           *)
(***************************************************************************)
labelMatches(labelPattern, rawText) ==
  matchFrom(labelPattern, normalizeText(rawText)) \/ test(labelPattern, rawText)

\* a variant of the locator that tests the raw label text only
findFieldByRawLabel(groups, labelPattern) ==
  LET hits == {i \in 1..Len(groups) :
                 groups[i].label # NoLabel /\ test(labelPattern, groups[i].label)}
  IN IF hits = {} THEN 0 ELSE CHOOSE i \in hits : \A j \in hits : i <= j

\* index of the first group of the page whose label-set matches, 0 for null
findFieldByLabel(groups, labelPattern) ==
  LET hits == {i \in 1..Len(groups) :
                 groups[i].label # NoLabel /\ labelMatches(labelPattern, groups[i].label)}
  IN IF hits = {} THEN 0 ELSE CHOOSE i \in hits : \A j \in hits : i <= j

(***************************************************************************)
(* Confidence Policy and Review Annotator                                  *)
(***************************************************************************)
UnknownMarkers == {<<"n/a">>, <<"na">>, <<"none">>, <<"unknown">>}

\* a variant of isUnknownValue without the confidence test
isUnknownValueIgnoringConfidence(value, confidence) ==
  IF value = <<>> \/ trim(value) = <<>> THEN TRUE
  ELSE IF toLowerCase(trim(value)) \in UnknownMarkers THEN TRUE
  ELSE FALSE

isUnknownValue(value, confidence) ==
  IF value = <<>> \/ trim(value) = <<>> THEN TRUE
  ELSE IF toLowerCase(trim(value)) \in UnknownMarkers THEN TRUE
  ELSE IF confidence < UNKNOWN_THRESHOLD THEN TRUE
  ELSE FALSE

\* container.querySelector('.expense-autofill-warning'): the first such
\* element; it is created if there is none, and its title is set
markLowConfidenceField(c, tooltipText) ==
  [c EXCEPT !.low = IF @ = NoTip THEN <<tooltipText>> ELSE <<tooltipText>> \o Tail(@)]

\* a variant of markUnknownField that does not remove the existing element
markUnknownFieldStacking(c, tooltipText) == [c EXCEPT !.unk = Append(@, tooltipText)]

\* an unknown annotation that removes the earlier warning and adds none
markUnknownFieldRemoving(c, tooltipText) == [c EXCEPT !.unk = NoTip]

\* the first element of class expense-autofill-unknown, if any, is removed
\* and a new one is appended
markUnknownField(c, tooltipText) ==
  [c EXCEPT !.unk = Append(IF @ = NoTip THEN @ ELSE Tail(@), tooltipText)]

Ev(g, e) == [g |-> g, ev |-> e]

\* what a writer hands back: the document after it, its FillResult, and what
\* it did to the group in order: the properties and attributes it set (value,
\* checked, data-autofilled), the events it dispatched, its annotations
Out(d, result, l) == [dom |-> d, result |-> result, log |-> l]

\* a variant of the not-found outcome whose result is flagged for review
NotFoundFlagged(d, fieldName) == Out(d, FillResult(fieldName, FALSE, 0, Undefined, TRUE), <<>>)

NotFound(d, fieldName) == Out(d, FillResult(fieldName, FALSE, 0, Undefined, FALSE), <<>>)

\* a variant of the unknown outcome whose result is not flagged for review
UnknownWithoutReview(d, g, fieldName, tooltipText) ==
  Out([d EXCEPT ![g] = markUnknownField(@, tooltipText)],
      FillResult(fieldName, FALSE, 0, Undefined, FALSE),
      <<Ev(g, "markUnknown")>>)

Unknown(d, g, fieldName, tooltipText) ==
  Out([d EXCEPT ![g] = markUnknownField(@, tooltipText)],
      FillResult(fieldName, FALSE, 0, Undefined, TRUE),
      <<Ev(g, "markUnknown")>>)

\* input.value && input.value.trim() !== '' && !input.hasAttribute('data-autofilled')
hasForeignValue(c) == c.value # <<>> /\ trim(c.value) # <<>> /\ ~c.marked

(***************************************************************************)
(* Field Writers.  Each writer starts with findFieldByLabel(labelPattern); *)
(* its result is the parameter g here (0 for null), see formGroupOf.       *)
(***************************************************************************)
\* writeText is the write of the text writer: value, provenance marker, the
\* four events, then the low-confidence annotation; writeTextAppending is a
\* variant that appends to the value the control holds (value += ...)
writeTextAppending(d, g, fieldName, value, confidence, tipKind) ==
  LET needsReview == confidence < CONFIDENCE_THRESHOLD
      c1 == [d[g] EXCEPT !.value = @ \o value, !.marked = TRUE, !.wrote = TRUE]
      c2 == IF needsReview THEN markLowConfidenceField(c1, <<tipKind, confidence>>) ELSE c1
  IN Out([d EXCEPT ![g] = c2],
         FillResult(fieldName, TRUE, confidence, value, needsReview),
         <<Ev(g, "value"), Ev(g, "data-autofilled"),
           Ev(g, "input"), Ev(g, "change"), Ev(g, "keyup"), Ev(g, "blur")>>
           \o (IF needsReview THEN <<Ev(g, "markLow")>> ELSE <<>>))

\* a variant of the write that dispatches change before input
writeTextChangeFirst(d, g, fieldName, value, confidence, tipKind) ==
  LET needsReview == confidence < CONFIDENCE_THRESHOLD
      c1 == [d[g] EXCEPT !.value = value, !.marked = TRUE, !.wrote = TRUE]
      c2 == IF needsReview THEN markLowConfidenceField(c1, <<tipKind, confidence>>) ELSE c1
  IN Out([d EXCEPT ![g] = c2],
         FillResult(fieldName, TRUE, confidence, value, needsReview),
         <<Ev(g, "value"), Ev(g, "data-autofilled"),
           Ev(g, "change"), Ev(g, "input"), Ev(g, "keyup"), Ev(g, "blur")>>
           \o (IF needsReview THEN <<Ev(g, "markLow")>> ELSE <<>>))

writeText(d, g, fieldName, value, confidence, tipKind) ==
  LET needsReview == confidence < CONFIDENCE_THRESHOLD
      c1 == [d[g] EXCEPT !.value = value, !.marked = TRUE, !.wrote = TRUE]
      c2 == IF needsReview THEN markLowConfidenceField(c1, <<tipKind, confidence>>) ELSE c1
  IN Out([d EXCEPT ![g] = c2],
         FillResult(fieldName, TRUE, confidence, value, needsReview),
         <<Ev(g, "value"), Ev(g, "data-autofilled"),
           Ev(g, "input"), Ev(g, "change"), Ev(g, "keyup"), Ev(g, "blur")>>
           \o (IF needsReview THEN <<Ev(g, "markLow")>> ELSE <<>>))

\* a variant of the text writer that tests for an unknown value before the
\* always-fill branch
fillTextFieldUnknownFirst(groups, d, g, fieldName, value, confidence, alwaysFillIfNotEmpty) ==
     IF g = 0 THEN NotFound(d, fieldName)
     ELSE IF groups[g].kind # "text" THEN NotFound(d, fieldName)
     ELSE IF isUnknownValue(value, confidence)
          THEN Unknown(d, g, fieldName, <<"could not be determined, fill manually">>)
     ELSE IF /\ alwaysFillIfNotEmpty
             /\ value # <<>>
             /\ trim(value) # <<>>
             /\ toLowerCase(trim(value)) \notin UnknownMarkers
          THEN IF hasForeignValue(d[g])
               THEN Out(d, FillResult(fieldName, FALSE, 0, Undefined, FALSE), <<>>)
               ELSE writeText(d, g, fieldName, value, confidence, "AI-generated description")
     ELSE IF isUnknownValue(value, confidence)
          THEN Unknown(d, g, fieldName, <<"could not be determined, fill manually">>)
     ELSE IF hasForeignValue(d[g])
          THEN Out(d, FillResult(fieldName, FALSE, 0, Undefined, FALSE), <<>>)
     ELSE writeText(d, g, fieldName, value, confidence, "Low confidence")

fillTextFieldByPattern(groups, d, g, fieldName, value, confidence, alwaysFillIfNotEmpty) ==
     IF g = 0 THEN NotFound(d, fieldName)
     ELSE IF groups[g].kind # "text" THEN NotFound(d, fieldName)
     ELSE IF /\ alwaysFillIfNotEmpty
             /\ value # <<>>
             /\ trim(value) # <<>>
             /\ toLowerCase(trim(value)) \notin UnknownMarkers
          THEN IF hasForeignValue(d[g])
               THEN Out(d, FillResult(fieldName, FALSE, 0, Undefined, FALSE), <<>>)
               ELSE writeText(d, g, fieldName, value, confidence, "AI-generated description")
     ELSE IF isUnknownValue(value, confidence)
          THEN Unknown(d, g, fieldName, <<"could not be determined, fill manually">>)
     ELSE IF hasForeignValue(d[g])
          THEN Out(d, FillResult(fieldName, FALSE, 0, Undefined, FALSE), <<>>)
     ELSE writeText(d, g, fieldName, value, confidence, "Low confidence")

\* opt.textContent.toLowerCase().includes(value.toLowerCase()) ||
\* value.toLowerCase().includes(opt.textContent.toLowerCase())
optionMatches(opt, value) ==
  \/ includes(toLowerCase(opt.text), toLowerCase(value))
  \/ includes(toLowerCase(value), toLowerCase(opt.text))

fillDropdownByPattern(groups, d, g, fieldName, value, confidence) ==
     IF g = 0 THEN NotFound(d, fieldName)
     ELSE IF groups[g].kind # "select" THEN NotFound(d, fieldName)
     ELSE IF isUnknownValue(value, confidence)
          THEN Unknown(d, g, fieldName, <<"could not be determined, select manually">>)
     ELSE
       LET options == groups[g].options
           hits == {i \in 1..Len(options) : optionMatches(options[i], value)}
           \* options.find: the first match
           m == IF hits = {} THEN 0 ELSE CHOOSE i \in hits : \A j \in hits : i <= j
       IN IF m # 0 /\ options[m].value # "-1"
          THEN LET needsReview == confidence < CONFIDENCE_THRESHOLD
                   c1 == [d[g] EXCEPT !.sel = options[m].value, !.wrote = TRUE]
                   c2 == IF needsReview
                         THEN markLowConfidenceField(c1, <<"Low confidence", confidence>>)
                         ELSE c1
               IN Out([d EXCEPT ![g] = c2],
                      FillResult(fieldName, TRUE, confidence,
                                 IF options[m].text # <<>> THEN options[m].text ELSE value,
                                 needsReview),
                      <<Ev(g, "value"), Ev(g, "change")>>
                        \o (IF needsReview THEN <<Ev(g, "markLow")>> ELSE <<>>))
          ELSE Unknown(d, g, fieldName, <<"could not find matching option">> \o value)

ClubCard == <<"club", " ", "spending", " ", "card">>

\* valueMappings[fieldName]?.[value] || []
valueMappings(fieldName, value) ==
  IF fieldName = "Payment Method" THEN
    CASE value = <<"club_card_no_extra">> ->
           << <<ClubCard, <<"with", "out">>, <<"additional", " ", "funding">> >>,
              <<ClubCard, <<"no">>, <<"extra">> >> >>
      [] value = <<"club_card_with_extra">> ->
           << <<ClubCard, <<"with">>, <<"additional", " ", "funding">> >>,
              <<ClubCard, <<"with">>, <<"extra">> >> >>
      [] value = <<"out_of_pocket">> -> << << <<"out", " ", "of", " ", "pocket">> >> >>
      [] OTHER -> <<>>
  ELSE IF fieldName = "Purchase Type" THEN
    CASE value = <<"food">> -> << << <<"food">> >> >>
      [] value = <<"apparel">> -> << << <<"apparel">> >>, << <<"clothing">> >> >>
      [] value = <<"subscription">> -> << << <<"subscription">> >> >>
      [] value = <<"other">> -> << << <<"other">> >> >>
      [] OTHER -> <<>>
  ELSE <<>>

radioPatterns(fieldName, value) ==
  IF valueMappings(fieldName, value) # <<>>
  THEN valueMappings(fieldName, value)
  ELSE << <<toLowerCase(value)>> >>      \* the escaped literal value, i flag

\* a variant of the radio writer that also flags a confidence equal to the
\* threshold
fillRadioGroupReviewAtThreshold(groups, d, g, fieldName, value, confidence) ==
     IF g = 0 THEN NotFound(d, fieldName)
     ELSE IF groups[g].kind # "radio" \/ Len(groups[g].radios) = 0 THEN NotFound(d, fieldName)
     ELSE IF isUnknownValue(value, confidence)
          THEN Unknown(d, g, fieldName, <<"could not be determined, select manually">>)
     ELSE
       LET radios == groups[g].radios
           patterns == radioPatterns(fieldName, value)
           hits == {i \in 1..Len(radios) :
                      \E k \in 1..Len(patterns) : test(patterns[k], radios[i])}
           m == IF hits = {} THEN 0 ELSE CHOOSE i \in hits : \A j \in hits : i <= j
       IN IF m # 0
          THEN LET needsReview == confidence <= CONFIDENCE_THRESHOLD
                   c1 == [d[g] EXCEPT !.checked = m, !.wrote = TRUE]
                   c2 == IF needsReview
                         THEN markLowConfidenceField(c1, <<"Low confidence", confidence>>)
                         ELSE c1
               IN Out([d EXCEPT ![g] = c2],
                      FillResult(fieldName, TRUE, confidence, trim(radios[m]), needsReview),
                      <<Ev(g, "checked"), Ev(g, "change"), Ev(g, "click")>>
                        \o (IF needsReview THEN <<Ev(g, "markLow")>> ELSE <<>>))
          ELSE Unknown(d, g, fieldName, <<"could not find matching option">> \o value)

\* a variant of the radio writer that checks the last matching radio
fillRadioGroupLastMatch(groups, d, g, fieldName, value, confidence) ==
     IF g = 0 THEN NotFound(d, fieldName)
     ELSE IF groups[g].kind # "radio" \/ Len(groups[g].radios) = 0 THEN NotFound(d, fieldName)
     ELSE IF isUnknownValue(value, confidence)
          THEN Unknown(d, g, fieldName, <<"could not be determined, select manually">>)
     ELSE
       LET radios == groups[g].radios
           patterns == radioPatterns(fieldName, value)
           hits == {i \in 1..Len(radios) :
                      \E k \in 1..Len(patterns) : test(patterns[k], radios[i])}
           m == IF hits = {} THEN 0 ELSE CHOOSE i \in hits : \A j \in hits : i >= j
       IN IF m # 0
          THEN LET needsReview == confidence < CONFIDENCE_THRESHOLD
                   c1 == [d[g] EXCEPT !.checked = m, !.wrote = TRUE]
                   c2 == IF needsReview
                         THEN markLowConfidenceField(c1, <<"Low confidence", confidence>>)
                         ELSE c1
               IN Out([d EXCEPT ![g] = c2],
                      FillResult(fieldName, TRUE, confidence, trim(radios[m]), needsReview),
                      <<Ev(g, "checked"), Ev(g, "change"), Ev(g, "click")>>
                        \o (IF needsReview THEN <<Ev(g, "markLow")>> ELSE <<>>))
          ELSE Unknown(d, g, fieldName, <<"could not find matching option">> \o value)

fillRadioGroupByPattern(groups, d, g, fieldName, value, confidence) ==
     IF g = 0 THEN NotFound(d, fieldName)
     ELSE IF groups[g].kind # "radio" \/ Len(groups[g].radios) = 0 THEN NotFound(d, fieldName)
     ELSE IF isUnknownValue(value, confidence)
          THEN Unknown(d, g, fieldName, <<"could not be determined, select manually">>)
     ELSE
       LET radios == groups[g].radios
           patterns == radioPatterns(fieldName, value)
           hits == {i \in 1..Len(radios) :
                      \E k \in 1..Len(patterns) : test(patterns[k], radios[i])}
           m == IF hits = {} THEN 0 ELSE CHOOSE i \in hits : \A j \in hits : i <= j
       IN IF m # 0
          THEN LET needsReview == confidence < CONFIDENCE_THRESHOLD
                   c1 == [d[g] EXCEPT !.checked = m, !.wrote = TRUE]
                   c2 == IF needsReview
                         THEN markLowConfidenceField(c1, <<"Low confidence", confidence>>)
                         ELSE c1
               IN Out([d EXCEPT ![g] = c2],
                      FillResult(fieldName, TRUE, confidence, trim(radios[m]), needsReview),
                      <<Ev(g, "checked"), Ev(g, "change"), Ev(g, "click")>>
                        \o (IF needsReview THEN <<Ev(g, "markLow")>> ELSE <<>>))
          ELSE Unknown(d, g, fieldName, <<"could not find matching option">> \o value)

(***************************************************************************)
(* Value conversions of the field handlers                                 *)
(***************************************************************************)
\* /^\d{2}\/\d{2}\/\d{4}$/.test(dateStr)
isMDY(dateStr) == dateStr \in {<<"03/05/2024">>}

\* new Date(dateStr) is a valid date: an ISO date parses, as midnight UTC
isValidDate(dateStr) == dateStr \in {<<"2024-03-05">>}

\* getMonth()/getDate()/getFullYear() read the date in local time
localMDY(dateStr, west) ==
  IF dateStr = <<"2024-03-05">>
  THEN (IF west THEN <<"03/04/2024">> ELSE <<"03/05/2024">>)
  ELSE dateStr

formatDate(dateStr, west) ==
  IF dateStr = <<>> THEN <<>>
  ELSE IF isMDY(dateStr) THEN dateStr
  ELSE IF isValidDate(dateStr) THEN localMDY(dateStr, west)
  ELSE dateStr

\* String(value): a number (a piece "num:...") is rendered in decimal
String(value) ==
  CASE value = <<"num:42.5">> -> <<"42.5">>
    [] value = <<"num:0">> -> <<"0">>
    [] OTHER -> value

(***************************************************************************)
(* Form Fill Orchestrator                                                  *)
(***************************************************************************)
Mapping(labelPattern, fieldName, kind, key, always) ==
  [labelPattern |-> labelPattern, fieldName |-> fieldName, kind |-> kind,
   key |-> key, always |-> always]

fieldMappings ==
  << Mapping(<< <<"purchaser", " ", "name">> >>, "Purchaser Name", "text", "purchaser_name", FALSE),
     Mapping(<< <<"purchaser", "'s", " ", "netid">> >>, "NetID", "text", "netid", FALSE),
     Mapping(<< <<"club", "/", "organization">> >>, "Club/Organization", "select", "club_name", FALSE),
     Mapping(<< <<"payment", " ", "method">> >>, "Payment Method", "radio", "payment_method", FALSE),
     Mapping(<< <<"vendor", " ", "name">> >>, "Vendor Name", "text", "vendor_name", FALSE),
     Mapping(<< <<"date", " ", "of", " ", "expense">> >>, "Date of Expense", "text", "date_of_expense", FALSE),
     Mapping(<< <<"expense", " ", "amount">> >>, "Expense Amount", "text", "total_amount", FALSE),
     Mapping(<< <<"purchase", " ", "type">> >>, "Purchase Type", "radio", "purchase_type", FALSE),
     Mapping(<< <<"include", " ", "the", " ", "link">>, <<"nyu", " ", "engage", " ", "event">> >>,
             "Event Link", "text", "event_link", FALSE),
     Mapping(<< <<"in", " ", "a", " ", "few", " ", "sentences">>,
                <<"describe", " ", "the", " ", "reason", " ", "for", " ", "the", " ", "purchase">> >>,
             "Description", "text", "description", TRUE) >>

\* findFieldByLabel(labelPattern) of the i-th handler on page p; the pages
\* have a fixed structure, so the search is done once per page and pattern
formGroupOf ==
  [p \in PageIds |->
     [i \in 1..Len(fieldMappings) |->
        findFieldByLabel(Pages(p), fieldMappings[i].labelPattern)]]

\* the value a handler passes to its writer
handlerValue(m, data, west) ==
  IF m.key = "date_of_expense" THEN formatDate(data[m.key].value, west)
  ELSE IF m.key = "total_amount" THEN String(data[m.key].value)
  ELSE data[m.key].value

\* the handler of table entry m, given the page's groups and the result g of
\* findFieldByLabel for the entry; reading a field the record lacks throws
handlerOf(m, groups, g, d, data, west) ==
  IF m.key \notin DOMAIN data
  THEN [threw |-> TRUE, out |-> NotFound(d, m.fieldName)]
  ELSE [threw |-> FALSE,
        out |-> CASE m.kind = "text" ->
                       fillTextFieldByPattern(groups, d, g, m.fieldName,
                                              handlerValue(m, data, west),
                                              data[m.key].confidence, m.always)
                  [] m.kind = "select" ->
                       fillDropdownByPattern(groups, d, g, m.fieldName,
                                             handlerValue(m, data, west),
                                             data[m.key].confidence)
                  [] m.kind = "radio" ->
                       fillRadioGroupByPattern(groups, d, g, m.fieldName,
                                               handlerValue(m, data, west),
                                               data[m.key].confidence)]

\* the i-th handler of the table on page p
handler(i, p, d, data, west) ==
  handlerOf(fieldMappings[i], Pages(p), formGroupOf[p][i], d, data, west)

\* a variant of the loop without the try/catch: the first exception ends it
RECURSIVE runHandlersAborting(_, _, _, _, _, _, _)
runHandlersAborting(i, p, d, data, west, results, l) ==
  IF i > Len(fieldMappings) THEN [dom |-> d, results |-> results, log |-> l]
  ELSE LET h == handler(i, p, d, data, west)
       IN IF h.threw
          THEN [dom |-> d, results |-> results, log |-> l]
          ELSE runHandlersAborting(i + 1, p, h.out.dom, data, west,
                                   Append(results, h.out.result), l \o h.out.log)

\* fieldMappings.forEach from entry i on: an exception is caught and logged,
\* and its field gets no result; h is what the handler of entry i did
RECURSIVE runHandlers(_, _, _, _, _, _, _)
afterHandler(h, i, p, d, data, west, results, l) ==
  IF h.threw
  THEN runHandlers(i + 1, p, d, data, west, results, l)
  ELSE runHandlers(i + 1, p, h.out.dom, data, west,
                   Append(results, h.out.result), l \o h.out.log)

runHandlers(i, p, d, data, west, results, l) ==
  IF i > Len(fieldMappings) THEN [dom |-> d, results |-> results, log |-> l]
  ELSE afterHandler(handler(i, p, d, data, west), i, p, d, data, west, results, l)

\* results.filter(r => r.filled).length
filledFields(results) == Cardinality({i \in 1..Len(results) : results[i].filled})

\* a variant of the review count that counts the filled results only
lowConfidenceFieldsOfFilled(results) ==
  Cardinality({i \in 1..Len(results) : results[i].filled /\ results[i].needsReview})

\* results.filter(r => r.needsReview).length
lowConfidenceFields(results) == Cardinality({i \in 1..Len(results) : results[i].needsReview})

\* the document after the pass, the FillSummary and the log of the pass
fillExpenseForm(p, d, data, west) ==
  LET run == runHandlers(1, p, d, data, west, <<>>, <<>>)
  IN [dom |-> run.dom,
      log |-> run.log,
      summary |-> [results |-> run.results,
                   totalFields |-> Len(fieldMappings),
                   filledFields |-> filledFields(run.results),
                   lowConfidenceFields |-> lowConfidenceFields(run.results)]]

(***************************************************************************)
(* Page Lifecycle Watcher                                                  *)
(***************************************************************************)
Timer(kind, due, n) == [kind |-> kind, due |-> due, n |-> n]

\* setTimeout of n identical callbacks due at the same time
addTimer(T, kind, due, n) ==
  IF n = 0 THEN T
  ELSE IF \E t \in T : t.kind = kind /\ t.due = due
  THEN {IF t.kind = kind /\ t.due = due THEN Timer(kind, due, t.n + n) ELSE t : t \in T}
  ELSE T \cup {Timer(kind, due, n)}

\* one callback of timer t has run
removeTimer(T, t) ==
  IF t.n > 1 THEN (T \ {t}) \cup {Timer(t.kind, t.due, t.n - 1)} ELSE T \ {t}

\* a check that sets the debounce without clearing the pending one
keepDebounce(T) == T

\* clearTimeout(refillDebounceTimer)
clearDebounce(T) == {t \in T : t.kind # "debounce"}

\* the watcher's view of the state, passed to and returned by its procedures;
\* uploaded is the value returned by checkAndUploadPendingFile
WatchState ==
  [pendingFormData |-> pendingFormData, isRefilling |-> isRefilling,
   refillCount |-> refillCount, lastFormFieldsCount |-> lastFormFieldsCount,
   lastUserInteraction |-> lastUserInteraction, clickListeners |-> clickListeners,
   timers |-> timers, outcome |-> "none",
   pendingPDFFileData |-> pendingPDFFileData, upload |-> upload, uploads |-> uploads,
   polls |-> polls, urlCheckInterval |-> urlCheckInterval, assigned |-> assigned,
   attempt |-> attempt, uploaded |-> FALSE]

(***************************************************************************)
(* Attachment Agent.  The host renders its upload area in one of a few     *)
(* ways: not at all, with a file input whose change event it processes     *)
(* (filling its file-name fields) or ignores, with a button that opens a   *)
(* modal dialog and no file input, without the AnswerId field, or with the *)
(* question not displayed.                                                 *)
(***************************************************************************)
UploadKinds == {"none", "accepting", "ignoring", "modal", "noAnswerId", "undisplayed"}

\* document.querySelector('.form-group.fileUploadQuestion')
hasQuestion(k) == k # "none"

\* document.querySelector('input[type="button"].uploadFileLink')
hasButton(k) == k # "none"

\* offsetParent !== null || getComputedStyle(...).display !== 'none'
isVisible(k) == k # "undisplayed"

\* input[name*="AnswerId"] with a value
hasAnswerId(k) == k \notin {"none", "noAnswerId"}

\* input[type="file"] in the question, in .uploadFile or near the button
hasFileInput(k) == k \in {"accepting", "ignoring", "undisplayed"}

\* the host's change handler fills input.temporaryFileNameField
hostAccepts(k) == k = "accepting"

\* the upload area as rendered: button counts the replacements of the button
\* node and disabled is that of the button now in the document, banner is
\* .expense-autofill-upload-message, populated says that a file-name field
\* of the host has a value
Upload(k) ==
  [kind |-> k, button |-> 0, disabled |-> FALSE, banner |-> FALSE, populated |-> FALSE]

\* a pending callback of the attachment agent.  The callback that judges an
\* assignment has captured the question and the button of its attempt:
\* populated is the state of the file-name fields of that question, button
\* is that button node, shown says that the question was visible, attached
\* that it is still in the document
UploadTimer(kind, due, file, populated, button, shown) ==
  [kind |-> kind, due |-> due, file |-> file, populated |-> populated, button |-> button,
   shown |-> shown, attached |-> TRUE]

Poll(due, checkCount) == [due |-> due, checkCount |-> checkCount]

\* how an attachment attempt for file ended: visible says that the upload
\* control was present and visible when the attempt was made; cleared, locked
\* and banner are the state of the slot, of the button and of the banner at
\* the end of the attempt
Attempt(file, outcome, visible, w) ==
  [file |-> file, outcome |-> outcome, visible |-> visible,
   cleared |-> w.pendingPDFFileData = <<>>, locked |-> w.upload.disabled,
   banner |-> w.upload.banner]

NoAttempt ==
  [file |-> 0, outcome |-> "none", visible |-> FALSE, cleared |-> TRUE, locked |-> FALSE,
   banner |-> FALSE]

\* the button is marked as intercepted and replaced by a clone of itself;
\* cloneNode copies attributes and not the __uploadIntercepted property, so
\* the button in the document never carries the mark
interceptButton(w) ==
  IF hasButton(w.upload.kind) THEN [w EXCEPT !.upload.button = @ + 1] ELSE w

\* showManualUploadMessage, for a question that is in the document
showManualUploadMessage(w) == [w EXCEPT !.upload.banner = TRUE]

\* an attempt for file has ended in state w
attemptEnded(w, file, outcome, shown) ==
  [w EXCEPT !.attempt = Attempt(file, outcome, shown, w)]

\* the file is assigned to the file input, whose change event the host
\* processes or not, and the judgement is scheduled
assignFile(w, file, shown) ==
  attemptEnded(
    [w EXCEPT !.assigned = Append(@, file),
              !.upload.populated = @ \/ hostAccepts(w.upload.kind),
              !.uploads = @ \cup {UploadTimer("uploadSettle", now + UPLOAD_SETTLE_DELAY, file,
                                               w.upload.populated \/ hostAccepts(w.upload.kind),
                                               w.upload.button, shown)}],
    file, "assigned", shown)

\* uploadPDFFile from the search for the AnswerId on
uploadIntercepted(w, file, shown) ==
  IF ~hasAnswerId(w.upload.kind) THEN attemptEnded(w, file, "noAnswerId", shown)
  ELSE IF hasFileInput(w.upload.kind) THEN assignFile(w, file, shown)
  ELSE attemptEnded(showManualUploadMessage(w), file, "banner", shown)

uploadPDFFile(w, file) ==
  IF ~hasQuestion(w.upload.kind) THEN attemptEnded(w, file, "noContainer", FALSE)
  ELSE uploadIntercepted(interceptButton(w), file, isVisible(w.upload.kind))

\* the callback that judges an assignment 2000 ms later; the button it
\* disables is the one captured by its attempt
uploadSettleTimeout(w, t) ==
  IF t.populated
  THEN attemptEnded(
         [w EXCEPT !.pendingPDFFileData = <<>>,
                   !.upload.disabled = @ \/ (t.attached /\ t.button = w.upload.button)],
         t.file, "success", t.shown)
  ELSE attemptEnded(IF t.attached THEN showManualUploadMessage(w) ELSE w,
                    t.file, "banner", t.shown)

checkAndUploadPendingFile(w) ==
  IF w.pendingPDFFileData = <<>> THEN [w EXCEPT !.uploaded = FALSE]
  ELSE IF ~hasQuestion(w.upload.kind) \/ ~hasButton(w.upload.kind)
  THEN [w EXCEPT !.uploaded = FALSE]
  ELSE IF ~isVisible(w.upload.kind) THEN [w EXCEPT !.uploaded = FALSE]
  ELSE [uploadPDFFile([interceptButton(w) EXCEPT !.pendingPDFFileData = <<>>],
                      w.pendingPDFFileData[1])
          EXCEPT !.uploaded = TRUE]

\* setTimeout(checkAndUploadPendingFile, 50) of the MutationObserver
scheduleObserverUpload(w) ==
  [w EXCEPT !.uploads =
     @ \cup {UploadTimer("observerUpload", now + OBSERVER_UPLOAD_DELAY, 0, FALSE, 0, FALSE)}]

\* the callback of the MutationObserver of initializeFileUploadWatcher
fileUploadObserverCallback(w) ==
  IF ~hasButton(w.upload.kind) \/ w.pendingPDFFileData = <<>> THEN w
  ELSE IF hasQuestion(w.upload.kind) /\ isVisible(w.upload.kind)
  THEN scheduleObserverUpload(interceptButton(w))
  ELSE interceptButton(w)

\* the end of a tick of an upload poll: the interval is cleared or goes on
endTick(w, checkCount) ==
  IF w.uploaded \/ w.pendingPDFFileData = <<>> \/ checkCount >= maxChecks
  THEN [w EXCEPT !.outcome = "stopped"]
  ELSE [w EXCEPT !.polls = @ \cup {Poll(now + UPLOAD_POLL_PERIOD, checkCount)},
                 !.outcome = "counted"]

\* one tick of the upload poll p (the callback of checkInterval), which has
\* been taken out of w.polls
checkIntervalTick(w, p) ==
  IF hidden
  THEN [w EXCEPT !.polls = @ \cup {Poll(now + UPLOAD_POLL_PERIOD, p.checkCount)},
                 !.outcome = "hiddenTick"]
  ELSE IF w.pendingPDFFileData # <<>> /\ p.checkCount < maxChecks
  THEN IF hasQuestion(w.upload.kind) /\ hasButton(w.upload.kind) /\ isVisible(w.upload.kind)
       THEN endTick(checkAndUploadPendingFile(w), p.checkCount + 1)
       ELSE endTick(w, p.checkCount + 1)
  ELSE endTick(w, p.checkCount)

(***************************************************************************)
(* Refill checks of the watcher                                            *)
(***************************************************************************)

\* a variant of checkAndRefillOnNewPage without the user-interaction test
checkAndRefillWithoutCooldown(w, force) ==
  LET currentFieldsCount == Len(Pages(page))
  IN IF w.pendingFormData = <<>> \/ w.isRefilling THEN [w EXCEPT !.outcome = "idle"]
     ELSE IF hidden THEN [w EXCEPT !.outcome = "hidden"]
     ELSE IF ~force /\ w.refillCount >= MAX_REFILLS_PER_PAGE
          THEN [w EXCEPT !.outcome = "maxRefills"]
     ELSE IF currentFieldsCount = 0 THEN [w EXCEPT !.outcome = "noFields"]
     ELSE IF force
          THEN [w EXCEPT !.lastFormFieldsCount = currentFieldsCount,
                         !.timers = addTimer(clearDebounce(@), "debounce", now + DEBOUNCE_DELAY, 1),
                         !.outcome = "scheduled"]
     ELSE [w EXCEPT !.lastFormFieldsCount = currentFieldsCount, !.outcome = "counted"]

checkAndRefillOnNewPage(w, force) ==
  LET currentFieldsCount == Len(Pages(page))
  IN IF w.pendingFormData = <<>> \/ w.isRefilling THEN [w EXCEPT !.outcome = "idle"]
     ELSE IF hidden THEN [w EXCEPT !.outcome = "hidden"]
     ELSE IF ~force /\ w.refillCount >= MAX_REFILLS_PER_PAGE
          THEN [w EXCEPT !.outcome = "maxRefills"]
     ELSE IF ~force /\ now - w.lastUserInteraction < INTERACTION_COOLDOWN
          THEN [w EXCEPT !.outcome = "recentInteraction"]
     ELSE IF currentFieldsCount = 0 THEN [w EXCEPT !.outcome = "noFields"]
     ELSE IF force
          THEN [w EXCEPT !.lastFormFieldsCount = currentFieldsCount,
                         !.timers = addTimer(clearDebounce(@), "debounce", now + DEBOUNCE_DELAY, 1),
                         !.outcome = "scheduled"]
     ELSE [w EXCEPT !.lastFormFieldsCount = currentFieldsCount, !.outcome = "counted"]

\* the refill branch shared by the three navigation callbacks
refillIfPending(w) ==
  IF w.pendingFormData # <<>> THEN checkAndRefillOnNewPage(w, TRUE)
  ELSE [w EXCEPT !.outcome = "idle"]

\* checks for the pending file, starts an upload poll and registers one more
\* document click listener for Next-like controls
initializeFileUploadWatcher(w) ==
  [checkAndUploadPendingFile(w) EXCEPT
     !.polls = @ \cup {Poll(now + UPLOAD_POLL_PERIOD, 0)},
     !.clickListeners = @ + 1]

initializeFormPageObserver(w) ==
  [w EXCEPT !.refillCount = 0,
            !.timers = addTimer(@, "observerInit", now + OBSERVER_INIT_DELAY, 1)]

\* isEmpty of the debounce callback, for group i of the page
isEmpty(i) ==
  LET g == Pages(page)[i]
      c == dom[i]
  IN \/ g.kind = "text" /\ c.value = <<>>
     \/ g.kind = "select" /\ (c.sel = "" \/ c.sel = "-1")
     \/ g.kind = "radio" /\ c.checked = 0 /\ Len(g.radios) > 0

\* the callback of groupsToCheck.some: a group holding the focus is skipped
countsAsEmpty(i) == activeElement # i /\ isEmpty(i)

groupsToCheck == 1..(IF Len(Pages(page)) < GROUPS_TO_CHECK THEN Len(Pages(page)) ELSE GROUPS_TO_CHECK)

\* the groups among the first 10 that are empty and do not hold the focus
emptyGroups == {i \in groupsToCheck : countsAsEmpty(i)}

emptyFieldCountOfAll == Cardinality(emptyGroups)

\* emptyFieldCount after groupsToCheck.some(...): some stops at the first
\* group for which the callback returns true
emptyFieldCount == IF \E i \in groupsToCheck : countsAsEmpty(i) THEN 1 ELSE 0

hasEmptyFields == \E i \in groupsToCheck : countsAsEmpty(i)

shouldRefillAnyEmpty == hasEmptyFields

\* the condition under which the debounce callback refills
shouldRefill == hasEmptyFields /\ emptyFieldCount > MIN_EMPTY_FIELDS

\* the events of a pass that the interaction tracking listens for
Tracked == {"input", "change", "click", "keydown", "focus"}

dispatchesTracked(l) == \E i \in 1..Len(l) : l[i].ev \in Tracked

Op(op, g, outcome) == [op |-> op, g |-> g, outcome |-> outcome]

\* the timeout callbacks of the navigation triggers and of the observer
nextClickTimeout(w) == checkAndUploadPendingFile(refillIfPending(w))

\* the end of the callback of checkUrlChange, after checkAndUploadPendingFile
stopOrReinitialize(w) ==
  IF w.uploaded THEN [w EXCEPT !.urlCheckInterval = FALSE]
  ELSE initializeFormPageObserver(initializeFileUploadWatcher(w))

urlChangeTimeout(w) == stopOrReinitialize(checkAndUploadPendingFile(refillIfPending(w)))

popstateTimeout(w) ==
  initializeFormPageObserver(
    initializeFileUploadWatcher(checkAndUploadPendingFile(refillIfPending(w))))

observerInitTimeoutForced(w) == checkAndRefillOnNewPage(w, TRUE)

observerInitTimeout(w) == checkAndRefillOnNewPage(w, FALSE)

(***************************************************************************)
(* Inputs of the model                                                     *)
(***************************************************************************)
\* confidences, in percent, on both sides of the two thresholds
Confs == {49, 50, 79, 80}

Field(value, confidence) == [value |-> value, confidence |-> confidence]

BaseRecord ==
  [purchaser_name |-> Field(<<"Ada">>, 95),
   netid |-> Field(<<"ab123">>, 95),
   club_name |-> Field(words(<<"Chess", "Club">>), 90),
   payment_method |-> Field(<<"out_of_pocket">>, 90),
   vendor_name |-> Field(<<"Acme">>, 95),
   date_of_expense |-> Field(<<"2024-03-05">>, 95),
   total_amount |-> Field(<<"num:42.5">>, 95),
   purchase_type |-> Field(<<"food">>, 90),
   event_link |-> Field(<<>>, 0),
   description |-> Field(<<"Lunch">>, 70)]

\* a record whose values are all unknown
UnknownRecord == [k \in KeySet |-> Field(<<"N/A">>, 95)]

\* the base record without one of its fields
Without(key) == [k \in KeySet \ {key} |-> BaseRecord[k]]

\* a record with six of the ten fields
ScenarioRecord ==
  [vendor_name |-> Field(<<"Acme">>, 95),
   total_amount |-> Field(<<"num:42.5">>, 95),
   purchase_type |-> Field(<<"food">>, 90),
   payment_method |-> Field(<<"out_of_pocket">>, 90),
   event_link |-> Field(<<>>, 0),
   description |-> Field(words(<<"Lunch", "for", "club", "meeting">>), 70)]

\* the base record with one field replaced
MkRecord(key, value, confidence) == [BaseRecord EXCEPT ![key] = Field(value, confidence)]

TextValues == {<<>>, <<" ">>, <<"N/A">>, <<" ", "None", " ">>, <<"na">>, <<"Unknown">>,
               <<"Acme">>}

\* the values that take each branch of isUnknownValue once
PlainValues == {<<>>, <<"N/A">>, <<"Acme">>}

ValuesOf(key) ==
  CASE key = "date_of_expense" -> PlainValues \cup {<<"2024-03-05">>, <<"03/05/2024">>}
    [] key = "total_amount" -> PlainValues \cup {<<"num:42.5">>, <<"num:0">>}
    [] key = "club_name" ->
         {<<>>, <<"N/A">>, words(<<"Chess", "Club">>), words(<<"chess", "club", "juniors">>),
          <<"Select">>, <<"Acme">>}
    [] key = "payment_method" ->
         {<<>>, <<"none">>, <<"club_card_with_extra">>, <<"club_card_no_extra">>,
          <<"out_of_pocket">>, words(<<"Out", "of", "pocket">>), <<"Acme">>}
    [] key = "purchase_type" ->
         {<<>>, <<"Unknown">>, <<"food">>, <<"apparel">>, <<"Food">>, <<"other">>, <<"Acme">>}
    [] key \in {"purchaser_name", "description"} -> TextValues
    [] OTHER -> PlainValues

\* the records that vary the field of single-group page p
RecordsFor(p) ==
  {MkRecord(Keys[p], v, c) : v \in ValuesOf(Keys[p]), c \in Confs}

\* what the user or the host may have put into the control of group g
UserCtls(g) ==
  CASE g.kind = "text" -> {Ctl(v, "", 0) : v \in {<<" ">>, <<"Other", " ", "Co.">>}}
    [] g.kind = "select" -> {Ctl(<<>>, g.options[i].value, 0) : i \in 2..Len(g.options)}
    [] g.kind = "radio" -> {Ctl(<<>>, "", i) : i \in {2}}
    [] OTHER -> {}

StartTime == INTERACTION_COOLDOWN

\* the events from outside so far
events == passes + edits + envSteps

\* one more event from outside may occur
mayOccur == events < MaxEvents /\ now <= StartTime + MaxEventTime

(***************************************************************************)
(* Actions                                                                 *)
(***************************************************************************)
\* chrome.runtime.onMessage listener, action 'fillForm'
\* the file of a command is identified by the number of the command
FillCommand(data, pdf) ==
  \E pass \in {fillExpenseForm(page, dom, data, tzWest)} :
     /\ pendingPDFFileData' = IF pdf THEN <<passes + 1>> ELSE pendingPDFFileData
     /\ uploads' = IF pdf /\ hasQuestion(upload.kind)
                   THEN uploads \cup {UploadTimer("immediateUpload",
                                                  now + IMMEDIATE_UPLOAD_DELAY, passes + 1,
                                                  FALSE, 0, FALSE)}
                   ELSE uploads
     /\ pendingFormData' = <<data>>
     /\ dom' = pass.dom
     /\ summary' = <<pass.summary>>
     /\ log' = pass.log
     /\ passes' = passes + 1
     /\ lastUserInteraction' = IF dispatchesTracked(pass.log) THEN now ELSE lastUserInteraction
     \* "repeat": the same record as the pass just before, nothing in between
     /\ lastOp' = Op("command", 0,
                     IF lastOp.op = "command" /\ pendingFormData = <<data>>
                     THEN "repeat" ELSE "first")
     /\ UNCHANGED <<page, activeElement, hidden, tzWest, href, now, timers, lastUrl,
                    lastFormFieldsCount, isRefilling, refillCount, clickListeners, edits, envSteps,
                    upload, polls, urlCheckInterval, assigned, attempt>>

\* the user focuses the control of group g and changes its value or selection
UserEdit(g, c) ==
  /\ g \in 1..Len(Pages(page))
  /\ c \in UserCtls(Pages(page)[g])
  /\ <<c.value, c.sel, c.checked>> # <<dom[g].value, dom[g].sel, dom[g].checked>>
  /\ dom' = [dom EXCEPT ![g].value = c.value, ![g].sel = c.sel, ![g].checked = c.checked,
                        ![g].wrote = FALSE]
  /\ activeElement' = g
  /\ lastUserInteraction' = now
  /\ edits' = edits + 1
  /\ lastOp' = Op("edit", g, "none")
  /\ UNCHANGED <<popup, page, hidden, tzWest, href, now, timers, pendingFormData, lastUrl,
                 lastFormFieldsCount, isRefilling, refillCount, clickListeners, passVars,
                 envSteps, attachVars>>

\* the user clicks a Next-like control: every registered click listener runs
NextClick ==
  /\ mayOccur
  /\ activeElement' = 0
  /\ lastUserInteraction' = now
  /\ refillCount' = 0
  /\ timers' = addTimer(timers, "nextClick", now + NEXT_CLICK_DELAY, clickListeners)
  /\ envSteps' = envSteps + 1
  /\ lastOp' = Op("click", 0, "none")
  /\ UNCHANGED <<popup, page, dom, hidden, tzWest, href, now, pendingFormData, lastUrl,
                 lastFormFieldsCount, isRefilling, clickListeners, passVars, edits, attachVars>>

PopStateResettingAll ==
  /\ mayOccur
  /\ refillCount' = 0
  /\ lastFormFieldsCount' = 0
  /\ lastUserInteraction' = 0
  /\ timers' = addTimer(timers, "popstate", now + POPSTATE_DELAY, 1)
  /\ envSteps' = envSteps + 1
  /\ lastOp' = Op("popstateEvent", 0, "none")
  /\ UNCHANGED <<popup, domVars, now, pendingFormData, lastUrl, isRefilling,
                 clickListeners, passVars, edits, attachVars>>

\* a popstate listener that also drops the stored record
PopStateClearing ==
  /\ mayOccur
  /\ refillCount' = 0
  /\ pendingFormData' = <<>>
  /\ timers' = addTimer(timers, "popstate", now + POPSTATE_DELAY, 1)
  /\ envSteps' = envSteps + 1
  /\ lastOp' = Op("popstateEvent", 0, "none")
  /\ UNCHANGED <<popup, domVars, now, lastUrl, lastFormFieldsCount, isRefilling,
                 lastUserInteraction, clickListeners, passVars, edits, attachVars>>

\* window popstate listener
PopState ==
  /\ mayOccur
  /\ refillCount' = 0
  /\ timers' = addTimer(timers, "popstate", now + POPSTATE_DELAY, 1)
  /\ envSteps' = envSteps + 1
  /\ lastOp' = Op("popstateEvent", 0, "none")
  /\ UNCHANGED <<popup, domVars, now, pendingFormData, lastUrl, lastFormFieldsCount, isRefilling,
                 lastUserInteraction, clickListeners, passVars, edits, attachVars>>

\* checkUrlChange, run by the 500 ms interval while it is not cleared
CheckUrlChange ==
  /\ urlCheckInterval
  /\ href # lastUrl
  /\ lastUrl' = href
  /\ refillCount' = 0
  /\ timers' = addTimer(timers, "urlChange", now + URL_CHANGE_DELAY, 1)
  /\ lastOp' = Op("urlPoll", 0, "none")
  /\ UNCHANGED <<popup, domVars, now, pendingFormData, lastFormFieldsCount, isRefilling,
                 lastUserInteraction, clickListeners, passVars, edits, envSteps, attachVars>>

\* the host application renders page p of its flow afresh, with or without
\* a new URL, with an upload area of kind k; the questions captured by
\* pending callbacks leave the document; observed says that the mutation
\* is one of the child list the MutationObserver watches
HostNavigate(p, newUrl, k, observed) ==
  /\ mayOccur
  /\ page' = p
  /\ dom' = BlankDom(p)
  /\ activeElement' = 0
  /\ href' = IF newUrl THEN OtherUrl(href) ELSE href
  /\ \E w0 \in {[WatchState EXCEPT
                    !.upload = Upload(k),
                    !.uploads = {[t EXCEPT !.attached = FALSE] : t \in uploads}]} :
       \E w \in {IF observed THEN fileUploadObserverCallback(w0) ELSE w0} :
         upload' = w.upload /\ uploads' = w.uploads
  /\ envSteps' = envSteps + 1
  /\ lastOp' = Op("navigate", 0, "none")
  /\ UNCHANGED <<popup, hidden, tzWest, now, timers, watchVars, passVars, edits,
                 pendingPDFFileData, polls, urlCheckInterval, assigned, attempt>>

\* the host renders its upload area, of kind k, into the page that is shown
RenderUpload(k, observed) ==
  /\ mayOccur
  /\ upload.kind = "none"
  /\ k # "none"
  /\ \E w0 \in {[WatchState EXCEPT !.upload = Upload(k)]} :
       \E w \in {IF observed THEN fileUploadObserverCallback(w0) ELSE w0} :
         upload' = w.upload /\ uploads' = w.uploads
  /\ envSteps' = envSteps + 1
  /\ lastOp' = Op("render", 0, IF observed THEN "observed" ELSE "unobserved")
  /\ UNCHANGED <<popup, domVars, now, timers, watchVars, passVars, edits,
                 pendingPDFFileData, polls, urlCheckInterval, assigned, attempt>>

\* the tab is hidden or shown
VisibilityChange ==
  /\ mayOccur
  /\ hidden' = ~hidden
  /\ envSteps' = envSteps + 1
  /\ lastOp' = Op("visibility", 0, "none")
  /\ UNCHANGED <<popup, page, dom, activeElement, tzWest, href, now, timers, watchVars, passVars, edits,
                 attachVars>>

\* a refill debounce that is an interval: the callback stays scheduled
DebounceInterval(T) ==
  /\ timers' = addTimer(T, "debounce", now + DEBOUNCE_DELAY, 1)
  /\ lastOp' = Op("debounce", 0, "idle")
  /\ UNCHANGED <<dom, isRefilling, refillCount, lastUserInteraction, passVars>>

\* the callback of the refill debounce timer
DebounceTimeout(T) ==
  IF pendingFormData = <<>> \/ isRefilling
  THEN /\ timers' = T
       /\ lastOp' = Op("debounce", 0, "idle")
       /\ UNCHANGED <<dom, isRefilling, refillCount, lastUserInteraction, passVars>>
  ELSE IF shouldRefill
  THEN \E pass \in {fillExpenseForm(page, dom, pendingFormData[1], tzWest)} :
          /\ isRefilling' = TRUE
          /\ refillCount' = refillCount + 1
          /\ dom' = pass.dom
          /\ summary' = <<pass.summary>>
          /\ log' = pass.log
          /\ passes' = passes + 1
          /\ lastUserInteraction' =
               IF dispatchesTracked(pass.log) THEN now ELSE lastUserInteraction
          /\ timers' = addTimer(T, "refillingReset", now + REFILLING_RESET_DELAY, 1)
          /\ lastOp' = Op("debounce", 0, "refilled")
  ELSE /\ timers' = T
       /\ lastOp' = Op("debounce", 0, "tooFewEmpty")
       /\ UNCHANGED <<dom, isRefilling, refillCount, lastUserInteraction, passVars>>

\* the attachment state after a procedure has returned w
AttachFrom(w) ==
  /\ pendingPDFFileData' = w.pendingPDFFileData
  /\ upload' = w.upload
  /\ uploads' = w.uploads
  /\ polls' = w.polls
  /\ urlCheckInterval' = w.urlCheckInterval
  /\ assigned' = w.assigned
  /\ attempt' = w.attempt

\* the callbacks that only touch the state of the watcher and of the agent
WatcherTimeout(t, T) ==
  \E w0 \in {[WatchState EXCEPT !.timers = T]} :
    \E w \in {CASE t.kind = "nextClick" -> nextClickTimeout(w0)
                [] t.kind = "urlChange" -> urlChangeTimeout(w0)
                [] t.kind = "popstate" -> popstateTimeout(w0)
                [] t.kind = "observerInit" -> observerInitTimeout(w0)
                [] t.kind = "refillingReset" -> [w0 EXCEPT !.isRefilling = FALSE]} :
      /\ timers' = w.timers
      /\ isRefilling' = w.isRefilling
      /\ refillCount' = w.refillCount
      /\ lastFormFieldsCount' = w.lastFormFieldsCount
      /\ clickListeners' = w.clickListeners
      /\ AttachFrom(w)
      /\ lastOp' = Op(t.kind, 0, w.outcome)
      /\ UNCHANGED <<dom, lastUserInteraction, passVars>>

\* the event loop runs a callback whose timeout has expired
RunTimer ==
  \E t \in timers :
    /\ t.due <= now
    /\ IF t.kind = "debounce"
       THEN DebounceTimeout(removeTimer(timers, t))
            /\ UNCHANGED <<lastFormFieldsCount, clickListeners, attachVars>>
       ELSE WatcherTimeout(t, removeTimer(timers, t))
    /\ UNCHANGED <<popup, page, activeElement, hidden, tzWest, href, now, pendingFormData, lastUrl,
                   edits, envSteps>>

\* the event loop runs a callback of the attachment agent
RunUpload ==
  \E t \in uploads :
    /\ t.due <= now
    /\ \E w0 \in {[WatchState EXCEPT !.uploads = uploads \ {t}]} :
         \E w \in {CASE t.kind = "immediateUpload" -> uploadPDFFile(w0, t.file)
                     [] t.kind = "observerUpload" -> checkAndUploadPendingFile(w0)
                     [] t.kind = "uploadSettle" -> uploadSettleTimeout(w0, t)} :
           /\ AttachFrom(w)
           /\ lastOp' = Op(t.kind, t.file,
                           IF t.kind = "observerUpload"
                           THEN (IF w.uploaded THEN "uploaded" ELSE "waiting")
                           ELSE w.attempt.outcome)
    /\ UNCHANGED <<popup, domVars, now, timers, watchVars, passVars, edits, envSteps>>

\* the event loop runs a tick of an upload poll
PollTick ==
  \E p \in polls :
    /\ p.due <= now
    /\ \E w \in {checkIntervalTick([WatchState EXCEPT !.polls = polls \ {p}], p)} :
         /\ AttachFrom(w)
         /\ lastOp' = Op("poll", p.checkCount, w.outcome)
    /\ UNCHANGED <<popup, domVars, now, timers, watchVars, passVars, edits, envSteps>>

\* the times at which a pending callback is due
dues == {t.due : t \in timers} \cup {t.due : t \in uploads} \cup {p.due : p \in polls}

\* time passes until the next timeout expires, up to the time limit
AdvanceTo(limit) ==
  \E due \in dues :
    /\ due > now
    /\ \A other \in dues : due <= other
    /\ due <= limit
    /\ now' = due
    /\ lastOp' = Op("time", 0, "none")
    /\ UNCHANGED <<popup, domVars, timers, watchVars, passVars, edits, envSteps, attachVars>>

Advance == AdvanceTo(StartTime + MaxTime)

(***************************************************************************)
(* Popup and background worker                                             *)
(***************************************************************************)
\* the state of the content script and of the page
contentVars == <<domVars, now, timers, watchVars, passVars, edits, envSteps, attachVars>>

\* useState of status; counts are the numbers interpolated into the message
Status(type, message, counts) == [type |-> type, message |-> message, counts |-> counts]

\* the popup as it opens: no attempt running, no status, nothing sent
PopupIdle ==
  [phase |-> "idle", status |-> <<>>, loading |-> FALSE, fillSummary |-> <<>>,
   response |-> <<>>, clicks |-> 0, parseCalls |-> 0, fetches |-> 0, sends |-> 0]

\* catch (error) { setStatus(error) } finally { setLoading(false) }
catchError(p, message) ==
  [p EXCEPT !.status = Status("error", message, <<>>), !.loading = FALSE, !.phase = "idle"]

\* sendResponse({ success: false, error: error.message })
Rejected(p, message) ==
  [p EXCEPT !.response = <<[success |-> FALSE, error |-> message]>>, !.phase = "response"]

\* a step of the popup or of the worker: the page and the content script stay
PopupStep(p, op, outcome) ==
  /\ popup' = p
  /\ lastOp' = Op(op, 0, outcome)
  /\ UNCHANGED contentVars

\* the user presses Auto-Fill (enabled while a file is selected and no
\* attempt is loading); the handler runs up to its first await
handleAutoFill(profileComplete) ==
  /\ popup.phase = "idle"
  /\ popup.clicks < MaxClicks
  /\ \E p \in {[popup EXCEPT !.clicks = @ + 1]} :
       IF ~profileComplete
       THEN PopupStep([p EXCEPT !.status =
                         Status("error", "Please fill in your profile information first",
                                <<>>)],
                      "autoFill", "noProfile")
       ELSE PopupStep([p EXCEPT !.loading = TRUE, !.phase = "extracting",
                                !.response = <<>>,
                                !.status = Status("info", "Parsing PDF...", <<>>)],
                      "autoFill", "started")

\* extractTextFromPDF settles; when it resolves the popup sends parseReceipt
extractTextFromPDF(resolves) ==
  /\ popup.phase = "extracting"
  /\ IF resolves
     THEN PopupStep([popup EXCEPT !.status =
                                    Status("info", "Analyzing receipt with AI...", <<>>),
                                  !.parseCalls = @ + 1, !.phase = "storage"],
                    "extractTextFromPDF", "resolved")
     ELSE PopupStep(catchError(popup, "PDF text extraction failed"),
                    "extractTextFromPDF", "rejected")

\* the worker has read openaiApiKey from chrome.storage.sync
handleReceiptParsing(apiKey) ==
  /\ popup.phase = "storage"
  /\ IF ~apiKey
     THEN PopupStep(Rejected(popup,
                             "OpenAI API key not set. Please configure it in the options page."),
                    "handleReceiptParsing", "noKey")
     ELSE PopupStep([popup EXCEPT !.fetches = @ + 1, !.phase = "fetch"],
                    "handleReceiptParsing", "fetch")

\* what the completion endpoint can answer
Answers == {"non-OK", "empty", "malformed", "json"}

\* the request to the completion endpoint settles with answer; data is the
\* record built from a well-formed answer and the profile
parseReceiptWithOpenAI(answer, data) ==
  /\ popup.phase = "fetch"
  /\ PopupStep(CASE answer = "non-OK" -> Rejected(popup, "OpenAI API error")
                 [] answer = "empty" -> Rejected(popup, "No content returned from OpenAI")
                 [] answer = "malformed" -> Rejected(popup, "Unexpected token in JSON")
                 [] answer = "json" ->
                      [popup EXCEPT !.response = <<[success |-> TRUE, data |-> data]>>,
                                    !.phase = "response"],
               "parseReceiptWithOpenAI", answer)

\* a continuation that sends parseReceipt again when the worker reports a failure
parseResponseRetrying ==
  /\ popup.phase = "response"
  /\ IF ~popup.response[1].success
     THEN PopupStep([popup EXCEPT !.parseCalls = @ + 1, !.phase = "storage"],
                    "parseResponse", "retried")
     ELSE PopupStep([popup EXCEPT !.status = Status("info", "Filling form...", <<>>),
                                  !.phase = "tabs"],
                    "parseResponse", "parsed")

\* the popup's continuation after the worker's reply
parseResponse ==
  /\ popup.phase = "response"
  /\ IF ~popup.response[1].success
     THEN PopupStep(catchError(popup, popup.response[1].error), "parseResponse", "failed")
     ELSE PopupStep([popup EXCEPT !.status = Status("info", "Filling form...", <<>>),
                                  !.phase = "tabs"],
                    "parseResponse", "parsed")

\* what chrome.tabs.query can find in the active tab
Tabs == {"none", "other", "engage"}

\* chrome.tabs.query settles; on the expense form the popup sends fillForm
tabsQuery(tab) ==
  /\ popup.phase = "tabs"
  /\ PopupStep(CASE tab = "none" -> catchError(popup, "No active tab found")
                 [] tab = "other" ->
                      catchError(popup, "Please navigate to the expense form page first")
                 [] tab = "engage" -> [popup EXCEPT !.sends = @ + 1, !.phase = "sending"],
               "tabsQuery", tab)

\* the content script receives fillForm, runs the pass and answers; the
\* popup shows the summary
fillResponse ==
  /\ popup.phase \in {"sending", "retrying"}
  /\ FillCommand(popup.response[1].data, TRUE)
  /\ popup' = [popup EXCEPT
                 !.fillSummary = summary',
                 !.status = Status(IF summary'[1].lowConfidenceFields > 0
                                   THEN "warning" ELSE "success",
                                   "Filled n/m fields. k need review.",
                                   <<summary'[1].filledFields, summary'[1].totalFields,
                                     summary'[1].lowConfidenceFields>>),
                 !.loading = FALSE,
                 !.phase = "idle"]

\* sendMessage rejects: the tab holds no content script yet (it loads when
\* executeScript injects it), or the message fails otherwise
sendRejected(noReceiver, injected) ==
  /\ popup.phase = "sending"
  /\ passes = 0
  /\ IF ~noReceiver
     THEN PopupStep(catchError(popup, "Could not send the message"), "sendMessage", "rejected")
     ELSE IF ~injected
     THEN PopupStep(catchError(popup, "Could not inject content script"),
                    "sendMessage", "notInjected")
     ELSE PopupStep([popup EXCEPT !.sends = @ + 1, !.phase = "retrying"],
                    "sendMessage", "injected")

(***************************************************************************)
(* Specifications                                                          *)
(***************************************************************************)
\* the state once the content script has loaded on page p with controls d
Loaded(p, d, west, k) ==
  /\ page = p
  /\ dom = d
  /\ activeElement = 0
  /\ hidden = FALSE
  /\ tzWest = west
  /\ href = "url-a"
  /\ now = StartTime
  /\ timers = {Timer("observerInit", StartTime + OBSERVER_INIT_DELAY, 1)}
  /\ pendingFormData = <<>>
  /\ lastUrl = "url-a"
  /\ lastFormFieldsCount = 0
  /\ isRefilling = FALSE
  /\ lastUserInteraction = 0
  /\ refillCount = 0
  /\ clickListeners = 1
  /\ summary = <<>>
  /\ log = <<>>
  /\ passes = 0
  /\ edits = 0
  /\ envSteps = 0
  /\ lastOp = Op("load", 0, "none")
  /\ pendingPDFFileData = <<>>
  /\ upload = Upload(k)
  /\ uploads = {}
  /\ polls = {Poll(StartTime + UPLOAD_POLL_PERIOD, 0)}
  /\ urlCheckInterval = TRUE
  /\ assigned = <<>>
  /\ attempt = NoAttempt
  /\ popup = PopupIdle

\* the content script has loaded on the blank form
Init == Loaded(FormPage, BlankDom(FormPage), FALSE, "none")

Records == {BaseRecord, UnknownRecord}

Next ==
  \/ mayOccur /\ \E data \in Records : FillCommand(data, FALSE) /\ UNCHANGED popup
  \/ /\ mayOccur
     /\ \E g \in {3, 5} \cap (1..Len(Pages(page))) :
          \E c \in UserCtls(Pages(page)[g]) : UserEdit(g, c)
  \/ NextClick
  \/ PopState
  \/ CheckUrlChange
  \/ \E p \in {FormPage, BlankPage} : \E newUrl \in BOOLEAN :
        HostNavigate(p, newUrl, "none", FALSE)
  \/ VisibilityChange
  \/ RunTimer
  \/ PollTick
  \/ Advance

Spec == Init /\ [][Next]_vars

\* one field group at a time, under every value, confidence and prior content
WriterInit ==
  \E p \in SinglePages :
    \* the time zone matters to the date field only
    \E west \in (IF Keys[p] = "date_of_expense" THEN BOOLEAN ELSE {FALSE}) :
      Loaded(p, BlankDom(p), west, "none")

WriterNext ==
  \/ passes < MaxPasses /\ \E data \in RecordsFor(page) : FillCommand(data, FALSE) /\ UNCHANGED popup
  \/ /\ edits < MaxEdits
     /\ \E g \in 1..Len(Pages(page)) : \E c \in UserCtls(Pages(page)[g]) : UserEdit(g, c)

WriterSpec == WriterInit /\ [][WriterNext]_vars

\* whole passes over the form, under complete and incomplete records
FillRecords ==
  {BaseRecord, UnknownRecord, ScenarioRecord,
   Without("purchaser_name"), Without("payment_method"), Without("description"),
   MkRecord("payment_method", <<"club_card_with_extra">>, 90),
   MkRecord("payment_method", <<"club_card_no_extra">>, 90)}

FillInit == \E p \in {FormPage, VariantPage} : Loaded(p, BlankDom(p), FALSE, "none")

FillNext ==
  \/ passes < MaxPasses /\ \E data \in FillRecords : FillCommand(data, FALSE) /\ UNCHANGED popup
  \/ /\ edits < MaxEdits
     /\ \E g \in {3, 5} \cap (1..Len(Pages(page))) :
          \E c \in UserCtls(Pages(page)[g]) : UserEdit(g, c)

FillSpec == FillInit /\ [][FillNext]_vars

\* the attachment agent on a page without field groups, under every rendering
\* of the host's upload area
AttachInit ==
  \E k \in UploadKinds : Loaded(BlankPage, BlankDom(BlankPage), FALSE, k)

\* the upload areas that the host renders after the load
LaterKinds == {"accepting", "modal"}

AttachNext ==
  \/ mayOccur /\ FillCommand(BaseRecord, TRUE) /\ UNCHANGED popup
  \/ \E k \in LaterKinds : \E observed \in BOOLEAN : RenderUpload(k, observed)
  \/ \E k \in {"none", "accepting"} : HostNavigate(BlankPage, TRUE, k, FALSE)
  \/ NextClick
  \/ PopState
  \/ CheckUrlChange
  \/ VisibilityChange
  \/ RunTimer
  \/ RunUpload
  \/ PollTick
  \/ Advance

AttachSpec == AttachInit /\ [][AttachNext]_vars

\* attempts made from the popup on the form, under every outcome of the
\* text extraction, the key lookup, the completion request and the tab query
PopupInit == Loaded(FormPage, BlankDom(FormPage), FALSE, "none")

PopupNext ==
  \/ \E profileComplete \in BOOLEAN : handleAutoFill(profileComplete)
  \/ \E resolves \in BOOLEAN : extractTextFromPDF(resolves)
  \/ \E apiKey \in BOOLEAN : handleReceiptParsing(apiKey)
  \/ \E answer \in Answers : \E data \in Records : parseReceiptWithOpenAI(answer, data)
  \/ parseResponse
  \/ \E tab \in Tabs : tabsQuery(tab)
  \/ fillResponse
  \/ \E noReceiver \in BOOLEAN : \E injected \in BOOLEAN : sendRejected(noReceiver, injected)

PopupSpec == PopupInit /\ [][PopupNext]_vars

\* the latest time at which a callback of the watcher can be due: a trigger
\* at the end of the time in which events occur, its delay, the debounce
\* and the reset of isRefilling
LiveTime ==
  StartTime + MaxEventTime + URL_CHANGE_DELAY + DEBOUNCE_DELAY + REFILLING_RESET_DELAY

\* the lifecycle of the form with time running until every callback of the
\* watcher has been due; the event loop runs every callback that is due
LiveNext ==
  \/ mayOccur /\ FillCommand(BaseRecord, FALSE) /\ UNCHANGED popup
  \/ NextClick
  \/ PopState
  \* the URL poll runs every 500 ms: it sees a change of URL while events occur
  \/ now <= StartTime + MaxEventTime /\ CheckUrlChange
  \/ \E p \in {FormPage, BlankPage} : \E newUrl \in BOOLEAN :
        HostNavigate(p, newUrl, "none", FALSE)
  \/ VisibilityChange
  \/ RunTimer
  \/ PollTick
  \/ AdvanceTo(LiveTime)

LiveSpec ==
  /\ Init
  /\ [][LiveNext]_vars
  /\ WF_vars(RunTimer)
  /\ WF_vars(PollTick)
  /\ WF_vars(AdvanceTo(LiveTime))

(***************************************************************************)
(* Properties                                                              *)
(***************************************************************************)
\* a fill pass (fillExpenseForm) runs in this step
PassStep == passes' = passes + 1

\* the content of a control: text value, selected option, checked radio
Content(c) == <<c.value, c.sel, c.checked>>

\* the control of group i holds a value or selection that is not blank, was
\* not written by this system and carries no provenance marker
HoldsForeign(d, i) ==
  LET g == Pages(page)[i]
  IN /\ ~d[i].wrote
     /\ ~d[i].marked
     /\ \/ g.kind = "text" /\ trim(d[i].value) # <<>>
        \/ g.kind = "select" /\ d[i].sel \notin {"", "-1"}
        \/ g.kind = "radio" /\ d[i].checked # 0

\* the entries of the field table whose control is found on the page
Found == {k \in 1..Len(fieldMappings) :
            /\ formGroupOf[page][k] # 0
            /\ Pages(page)[formGroupOf[page][k]].kind = fieldMappings[k].kind}

\* the results of summary sm for entry k of the field table
ResultsOf(sm, k) ==
  {sm.results[j] : j \in {j \in 1..Len(sm.results) :
                            sm.results[j].fieldName = fieldMappings[k].fieldName}}

\* C1: a pass leaves every control that holds foreign content as it was
C1_NonDestructiveState ==
  [][PassStep =>
       \A i \in DOMAIN dom :
         HoldsForeign(dom, i) => Content(dom'[i]) = Content(dom[i])]_vars

\* C2: the result of a field whose control holds foreign content is
\* filled=false, needsReview=false, whatever the record says
C2_NonDestructiveResult ==
  [][PassStep =>
       \A k \in Found :
         HoldsForeign(dom, formGroupOf[page][k]) =>
           \A r \in ResultsOf(summary'[1], k) : ~r.filled /\ ~r.needsReview]_vars

\* C3: a pass that follows a user edit of a control this system had filled
\* (provenance-marked) leaves the value the user typed in place
C3_UserEditSurvives ==
  [][(/\ PassStep
      /\ lastOp.op = "edit"
      /\ dom[lastOp.g].marked
      /\ trim(dom[lastOp.g].value) # <<>>) =>
       Content(dom'[lastOp.g]) = Content(dom[lastOp.g])]_vars

\* a pass with the record of the pass just before it, nothing in between
RepeatStep == PassStep /\ lastOp.op = "command" /\ pendingFormData' = pendingFormData

\* C4: a second pass with the same record changes no control's content
C4_IdempotentContent ==
  [][RepeatStep => \A i \in DOMAIN dom : Content(dom'[i]) = Content(dom[i])]_vars

C4_Witness ==
  /\ lastOp = Op("command", 0, "repeat")
  /\ summary[1].filledFields > 0

\* C5: in the second pass with the same record the fields the first pass
\* filled are reported filled=false, and every other result is the same
C5_IdempotentSummary ==
  [][RepeatStep =>
       /\ Len(summary'[1].results) = Len(summary[1].results)
       /\ \A j \in 1..Len(summary[1].results) :
            IF summary[1].results[j].filled
            THEN ~summary'[1].results[j].filled
            ELSE summary'[1].results[j] = summary[1].results[j]]_vars

\* the confidence the record of the last pass gives for entry k
RecordConfidence(k) == pendingFormData[1][fieldMappings[k].key].confidence

\* the last pass annotated group g as low-confidence
AnnotatedLow(g) == \E j \in 1..Len(log) : log[j] = Ev(g, "markLow")

ValueFor(k, data) == handlerValue(fieldMappings[k], data, tzWest)
ConfidenceFor(k, data) == data[fieldMappings[k].key].confidence

IsMarker(v) == toLowerCase(v) \in UnknownMarkers

\* the writer of entry k treated its input as unknown in this step
SkippedAsUnknown(k) ==
  LET g == formGroupOf[page][k]
  IN /\ Content(dom'[g]) = Content(dom[g])
     /\ dom'[g].unk # NoTip
     /\ \E j \in 1..Len(log') : log'[j] = Ev(g, "markUnknown")
     /\ ResultsOf(summary'[1], k) # {}
     /\ \A r \in ResultsOf(summary'[1], k) : ~r.filled /\ r.needsReview

\* C7 as stated: for every field whose control is found, the description
\* field included, a confidence below 0.5, an empty value or an unknown marker
\* leaves the control alone, with filled=false, needsReview=true and the
\* unknown annotation
C7_UnknownThresholding ==
  [][PassStep =>
       \A k \in Found :
         LET v == ValueFor(k, pendingFormData'[1])
             c == ConfidenceFor(k, pendingFormData'[1])
         IN (c < 50 \/ v = <<>> \/ IsMarker(v)) => SkippedAsUnknown(k)]_vars

\* C7 amended: an empty value or an unknown marker does so for every field;
\* a confidence below 0.5 does so for every field but the always-fill
\* description field
C7_UnknownThresholdingAmended ==
  [][PassStep =>
       \A k \in Found :
         LET v == ValueFor(k, pendingFormData'[1])
             c == ConfidenceFor(k, pendingFormData'[1])
         IN (v = <<>> \/ IsMarker(v) \/ (c < 50 /\ ~fieldMappings[k].always))
              => SkippedAsUnknown(k)]_vars

C7_Witness ==
  /\ lastOp.op = "command"
  /\ \E k \in Found :
       /\ ConfidenceFor(k, pendingFormData[1]) = 49
       /\ ValueFor(k, pendingFormData[1]) # <<>>
       /\ ~IsMarker(ValueFor(k, pendingFormData[1]))
       /\ ~fieldMappings[k].always
       /\ dom[formGroupOf[page][k]].unk # NoTip
       /\ \E r \in ResultsOf(summary[1], k) : ~r.filled /\ r.needsReview

\* the reference decision of the Confidence Policy, rules 1 to 4 in order
decide(value, confidence, existing, alwaysFillIfPresent) ==
  LET empty == trim(value) = <<>>
      marker == toLowerCase(trim(value)) \in UnknownMarkers
      unmarkedContent == trim(existing.value) # <<>> /\ ~existing.marked
      fill == IF confidence < 80 THEN "FILL_FLAGGED" ELSE "FILL"
  IN IF alwaysFillIfPresent /\ ~empty /\ ~marker
     THEN IF unmarkedContent THEN "SKIP_COLLISION" ELSE fill
     ELSE IF empty \/ marker \/ confidence < 50 THEN "SKIP_UNKNOWN"
     ELSE IF unmarkedContent THEN "SKIP_COLLISION"
     ELSE fill

\* what the text writer did with control before, read off its result r and
\* the control after
outcomeOf(r, value, before, after) ==
  IF r.filled /\ after.value = value /\ after.marked
  THEN IF r.needsReview THEN "FILL_FLAGGED" ELSE "FILL"
  ELSE IF ~r.filled /\ after.value = before.value /\ after.marked = before.marked
  THEN IF r.needsReview THEN "SKIP_UNKNOWN" ELSE "SKIP_COLLISION"
  ELSE "other"

TextFound == {k \in Found : fieldMappings[k].kind = "text"}

\* C8: for every text field the writer's outcome is the one decide() gives
C8_DecisionTable ==
  [][PassStep =>
       \A k \in TextFound :
         LET g == formGroupOf[page][k]
             v == ValueFor(k, pendingFormData'[1])
         IN /\ ResultsOf(summary'[1], k) # {}
            /\ \A r \in ResultsOf(summary'[1], k) :
                 outcomeOf(r, v, dom[g], dom'[g]) =
                   decide(v, ConfidenceFor(k, pendingFormData'[1]), dom[g],
                          fieldMappings[k].always)]_vars

\* rule 1 decided: the description filled, flagged, at a confidence below 0.5
C8_Witness ==
  /\ lastOp.op = "command"
  /\ \E k \in TextFound :
       /\ fieldMappings[k].always
       /\ ConfidenceFor(k, pendingFormData[1]) < 50
       /\ dom[formGroupOf[page][k]].marked
       /\ \E r \in ResultsOf(summary[1], k) : r.filled /\ r.needsReview

\* the groups among the first ten that are empty and do not hold the focus
\* C9 (as a property of finite runs): when the debounce timer of a
\* navigation-triggered refill fires with a record pending, on a visible page
\* with more than 3 of its first 10 groups empty, fillExpenseForm is invoked
C9_RefillAfterNavigation ==
  (/\ lastOp.op = "debounce"
   /\ pendingFormData # <<>>
   /\ ~isRefilling \/ lastOp.outcome = "refilled"
   /\ ~hidden
   /\ Cardinality(emptyGroups) > 3 \/ lastOp.outcome = "refilled")
    => lastOp.outcome = "refilled"

\* the callbacks that run a refill check, and the outcomes of a skipped check
CheckOps == {"nextClick", "urlChange", "popstate", "observerInit"}
Skipped == {"idle", "hidden", "maxRefills", "recentInteraction"}

debounces(T) == {t \in T : t.kind = "debounce"}

\* C11: a non-forced refill check (the observer-initialisation check,
\* checkAndRefillOnNewPage(false)) neither invokes fillExpenseForm nor
\* schedules a refill, so any sequence of them on one page leads to at most
\* one (in fact to no) invocation of fillExpenseForm by the watcher
C11_RefillBudget ==
  [][lastOp'.op = "observerInit" =>
       /\ passes' = passes
       /\ dom' = dom
       /\ refillCount' <= MAX_REFILLS_PER_PAGE
       /\ debounces(timers') \subseteq debounces(timers)]_vars

C11_Witness ==
  /\ lastOp = Op("observerInit", 0, "counted")
  /\ pendingFormData # <<>>
  /\ ~hidden
  /\ debounces(timers) = {}

\* the steps at which a navigation trigger is detected
TriggerOps == {"click", "popstateEvent", "urlPoll"}

\* C17 as stated: when a navigation trigger is detected, refillCount,
\* lastFormFieldsCount and lastUserInteraction are all reset to their initial
\* value 0
C17_NavigationResetsAll ==
  [][lastOp'.op \in TriggerOps =>
       /\ refillCount' = 0
       /\ lastFormFieldsCount' = 0
       /\ lastUserInteraction' = 0]_vars

\* C17 amended: when a navigation trigger is detected, refillCount is reset
\* to 0 before the refill check of the new page is scheduled; the recorded
\* field count is kept, and the time of the last user interaction is kept
\* too, except that a Next-like click, being a user event, sets it to the
\* time of the click
C17_NavigationResetsRefillCount ==
  [][lastOp'.op \in TriggerOps =>
       /\ refillCount' = 0
       /\ lastFormFieldsCount' = lastFormFieldsCount
       /\ lastUserInteraction' =
            (IF lastOp'.op = "click" THEN now ELSE lastUserInteraction)
       /\ \E t \in timers' : t.due > now /\ t.kind \in {"nextClick", "popstate", "urlChange"}]_vars

C17_Witness ==
  /\ lastOp.op = "popstateEvent"
  /\ refillCount = 0
  /\ lastFormFieldsCount > 0
  /\ lastUserInteraction > 0

\* C19: the watcher never invokes fillExpenseForm while the page is hidden: a
\* refill check that runs on a hidden page with a record pending is skipped,
\* and no step other than a fill command runs a pass while the page is hidden,
\* the debounce callback included
C19_HiddenPageGate ==
  [][/\ (lastOp'.op \in CheckOps /\ hidden /\ pendingFormData # <<>>)
          => (lastOp'.outcome \in Skipped /\ debounces(timers') \subseteq debounces(timers))
     /\ (lastOp'.op # "command" /\ hidden) => passes' = passes]_vars

\* the page was hidden after the check had scheduled the refill, and the
\* debounce callback has run
C19_Witness ==
  /\ lastOp.op = "debounce"
  /\ lastOp.outcome # "idle"
  /\ hidden
  /\ pendingFormData # <<>>
  /\ emptyGroups # {}

\* C20: the debounce callback invokes fillExpenseForm only if more than 3 of
\* the first 10 field groups, not counting a group that holds the focus, are
\* empty; with 3 or fewer such groups it changes nothing
C20_EmptyFieldGate ==
  [][lastOp'.op = "debounce" =>
       /\ passes' # passes => Cardinality(emptyGroups) > MIN_EMPTY_FIELDS
       /\ Cardinality(emptyGroups) <= MIN_EMPTY_FIELDS
            => (passes' = passes /\ dom' = dom /\ lastOp'.outcome # "refilled")]_vars

C20_Witness ==
  /\ lastOp = Op("debounce", 0, "tooFewEmpty")
  /\ pendingFormData # <<>>
  /\ Cardinality(emptyGroups) \in 1..MIN_EMPTY_FIELDS

\* C12: the pending-attachment slot goes from set to cleared only in the
\* step that judges an attachment attempt for its file successful
C12_ConsumedOnlyOnSuccess ==
  [][(pendingPDFFileData # <<>> /\ pendingPDFFileData' = <<>>) =>
       /\ lastOp'.op = "uploadSettle"
       /\ lastOp'.outcome = "success"
       /\ lastOp'.g = pendingPDFFileData[1]]_vars

\* C13: no file is assigned to a file input of the host more than once
C13_AttachedAtMostOnce ==
  \A i, j \in 1..Len(assigned) : assigned[i] = assigned[j] => i = j

\* C14: an attachment attempt made while the upload control was visible has
\* ended either judged successful, with the slot cleared and the button in
\* the document disabled, or with the manual-upload banner in the document
C14_AttemptOutcome ==
  (attempt.visible /\ attempt.outcome \notin {"none", "assigned"}) =>
     \/ attempt.outcome = "success" /\ attempt.cleared /\ attempt.locked /\ ~attempt.banner
     \/ attempt.outcome # "success" /\ attempt.banner

\* the pending callbacks of the navigation triggers
navigationTimers == {t \in timers : t.kind \in {"nextClick", "urlChange", "popstate"}}

\* C15 (as a property of finite runs): when the upload control has just
\* become present and visible on a visible page, with a file pending for
\* which no attempt has been made or is scheduled and with no navigation
\* trigger detected or to be detected, an upload poll is running that has
\* checks left, so that its next tick calls the attachment agent
C15_LazyUploadControl ==
  (/\ lastOp.op = "render"
   /\ pendingPDFFileData # <<>>
   /\ isVisible(upload.kind)
   /\ ~hidden
   /\ attempt = NoAttempt
   /\ uploads = {}
   /\ navigationTimers = {}
   /\ href = lastUrl)
    => \E p \in polls : p.checkCount < maxChecks

\* C16 (as a property of finite runs): every tick of an upload poll either
\* stops the poll or is one of its at most 20 counted checks
C16_PollTermination ==
  [][lastOp'.op = "poll" =>
       \/ lastOp'.outcome = "stopped"
       \/ /\ lastOp'.outcome = "counted"
          /\ \E p \in polls' \ polls : p.checkCount = lastOp'.g + 1 /\ p.checkCount < maxChecks]_vars

\* C18 (as a property of finite runs): the URL poll is running in every
\* state, so that a change of location.href is detected by its next tick
C18_UrlDetectionNeverStops == urlCheckInterval

\* the table entries whose field the record of the last command has
present(data) == {i \in 1..Len(fieldMappings) : fieldMappings[i].key \in DOMAIN data}

\* the results of the last pass that are about table entry i
resultsOf(i) ==
  {j \in 1..Len(summary[1].results) :
     summary[1].results[j].fieldName = fieldMappings[i].fieldName}

\* C21: a fill command always yields a summary, and whatever fields the record
\* lacks (their handling raises), every field definition the record does have
\* is still handled: it has a result in the summary, also when it comes after
\* a failing one
C21_ExceptionIsolation ==
  lastOp.op = "command" =>
    /\ summary # <<>>
    /\ \A i \in present(pendingFormData[1]) : resultsOf(i) # {}

\* a pass in which the handling of a field raised and a later field was filled
C21_Witness ==
  /\ lastOp.op = "command"
  /\ \E i, k \in 1..Len(fieldMappings) :
       /\ i < k
       /\ i \notin present(pendingFormData[1])
       /\ k \in present(pendingFormData[1])
       /\ \E j \in resultsOf(k) : summary[1].results[j].filled

\* C22: the summary of every pass has exactly one result per field definition,
\* in the order of the table (so 10 results, as many as totalFields), and the
\* result of a field whose handling raised is filled = false, needsReview = false
C22_OneResultPerField ==
  lastOp.op = "command" =>
    /\ Len(summary[1].results) = Len(fieldMappings)
    /\ summary[1].totalFields = Len(summary[1].results)
    /\ \A i \in 1..Len(fieldMappings) :
         /\ summary[1].results[i].fieldName = fieldMappings[i].fieldName
         /\ i \notin present(pendingFormData[1]) =>
              /\ ~summary[1].results[i].filled
              /\ ~summary[1].results[i].needsReview

\* C23: in the summary of every pass filledFields is the number of results
\* with filled = true, lowConfidenceFields the number of results with
\* needsReview = true, and filledFields <= number of results <= totalFields
C23_SummaryCounts ==
  lastOp.op = "command" =>
    LET sum == summary[1]
        n == Len(sum.results)
    IN /\ sum.filledFields = Cardinality({j \in 1..n : sum.results[j].filled = TRUE})
       /\ sum.lowConfidenceFields =
            Cardinality({j \in 1..n : sum.results[j].needsReview = TRUE})
       /\ sum.filledFields <= n
       /\ n <= sum.totalFields

\* a pass whose results differ in all the counts: some filled, some flagged
\* for review without being filled, and fewer results than table entries
C23_Witness ==
  /\ lastOp.op = "command"
  /\ 0 < summary[1].filledFields
  /\ summary[1].filledFields < Len(summary[1].results)
  /\ Len(summary[1].results) < summary[1].totalFields
  /\ \E j \in 1..Len(summary[1].results) :
       summary[1].results[j].needsReview /\ ~summary[1].results[j].filled

\* the scenario record has just been applied to the blank form
scenarioApplied ==
  /\ lastOp.op = "command"
  /\ passes = 1
  /\ edits = 0
  /\ page = FormPage
  /\ pendingFormData = <<ScenarioRecord>>

\* the results of the last pass that are filled, that are flagged for review
filledResults == {j \in 1..Len(summary[1].results) : summary[1].results[j].filled}
reviewResults == {j \in 1..Len(summary[1].results) : summary[1].results[j].needsReview}

\* their field names
filledNames == {summary[1].results[j].fieldName : j \in filledResults}
reviewNames == {summary[1].results[j].fieldName : j \in reviewResults}

\* C24 as stated: the scenario record applied to the blank form gives
\* filledFields = 5 (vendor, amount, purchase type, payment method,
\* description), an unfilled event link, and description as the only result
\* with needsReview = true
C24_ScenarioOnlyDescriptionFlagged ==
  scenarioApplied =>
    /\ summary[1].filledFields = 5
    /\ filledNames = {"Vendor Name", "Expense Amount", "Purchase Type", "Payment Method",
                      "Description"}
    /\ reviewNames = {"Description"}

\* C24 amended: the scenario record applied to the blank form gives
\* filledFields = 5 (vendor, amount, purchase type, payment method,
\* description) and lowConfidenceFields = 2: the event link is not filled
\* and, being unknown, is flagged for review, and description is the only
\* filled result flagged for review
C24_ScenarioEventLinkFlagged ==
  scenarioApplied =>
    /\ summary[1].filledFields = 5
    /\ filledNames = {"Vendor Name", "Expense Amount", "Purchase Type", "Payment Method",
                      "Description"}
    /\ reviewNames = {"Event Link", "Description"}
    /\ summary[1].lowConfidenceFields = 2
    /\ dom[9].value = <<>> /\ dom[9].unk # NoTip
    /\ dom[10].value = ScenarioRecord.description.value /\ dom[10].low # NoTip

\* the scenario record has been applied to the blank form and filled fields
C24_Witness == scenarioApplied /\ summary[1].filledFields = 5 /\ dom[5].value = <<"Acme">>

RadioFound == {k \in Found : fieldMappings[k].kind = "radio"}

\* the first radio of the group of entry k whose label matches one of the
\* patterns for value v, 0 if there is none
firstMatching(k, v) ==
  LET radios == Pages(page)[formGroupOf[page][k]].radios
      patterns == radioPatterns(fieldMappings[k].fieldName, v)
      hits == {i \in 1..Len(radios) :
                 \E n \in 1..Len(patterns) : test(patterns[n], radios[i])}
  IN IF hits = {} THEN 0 ELSE CHOOSE i \in hits : \A j \in hits : i <= j

\* the DOM events that log l holds for group g, in order
eventsOn(l, g) ==
  LET dispatched(e) == e.g = g /\ e.ev \in {"input", "change", "keyup", "blur", "click"}
      sel == SelectSeq(l, dispatched)
  IN [j \in 1..Len(sel) |-> sel[j].ev]

WithFunding ==
  words(<<"Club", "Spending", "Card">>) \o <<" ", "(", "with", " ", "additional", " ", "funding", ")">>

\* C25: for a value that is not unknown the radio writer checks the first
\* radio whose label matches a pattern for the value and no other, dispatching
\* change then click and reporting filled = true; 'club_card_with_extra'
\* checks the radio labelled 'Club Spending Card (with additional funding)';
\* when no label matches it checks nothing, dispatches nothing, annotates the
\* group unknown and reports filled = false, needsReview = true
C25_RadioWriter ==
  [][PassStep =>
       \A k \in RadioFound :
         LET g == formGroupOf[page][k]
             v == ValueFor(k, pendingFormData'[1])
             m == firstMatching(k, v)
         IN ~isUnknownValue(v, ConfidenceFor(k, pendingFormData'[1])) =>
              /\ ResultsOf(summary'[1], k) # {}
              /\ IF m # 0
                 THEN /\ dom'[g].checked = m
                      /\ eventsOn(log', g) = <<"change", "click">>
                      /\ \A r \in ResultsOf(summary'[1], k) : r.filled
                      /\ (fieldMappings[k].key = "payment_method"
                            /\ v = <<"club_card_with_extra">>)
                           => Pages(page)[g].radios[dom'[g].checked] = WithFunding
                 ELSE /\ dom'[g].checked = dom[g].checked
                      /\ eventsOn(log', g) = <<>>
                      /\ dom'[g].unk # NoTip
                      /\ \A r \in ResultsOf(summary'[1], k) :
                           ~r.filled /\ r.needsReview]_vars

\* 'club_card_with_extra' checked the first radio of a group in which the
\* user had checked another one
C25_Witness ==
  /\ lastOp.op = "command"
  /\ edits = 1
  /\ \E k \in RadioFound :
       /\ fieldMappings[k].key = "payment_method"
       /\ ValueFor(k, pendingFormData[1]) = <<"club_card_with_extra">>
       /\ dom[formGroupOf[page][k]].checked = 1
       /\ eventsOn(log, formGroupOf[page][k]) = <<"change", "click">>

SelectFound == {k \in Found : fieldMappings[k].kind = "select"}

\* the options of the select of entry k that are not the sentinel and whose
\* text contains value v or is contained in it, letter case ignored
nonSentinelMatches(k, v) ==
  LET options == Pages(page)[formGroupOf[page][k]].options
  IN {i \in 1..Len(options) :
        /\ options[i].value # "-1"
        /\ \/ includes(toLowerCase(options[i].text), toLowerCase(v))
           \/ includes(toLowerCase(v), toLowerCase(options[i].text))}

\* C26: for a value that is not unknown, when some option other than the
\* sentinel '-1' matches the value (either text contains the other, letter
\* case ignored) the select writer selects such an option, dispatches change
\* and reports filled = true, without the unknown annotation; it never
\* selects the sentinel; only when no such option matches does it annotate
\* the group unknown and report filled = false, needsReview = true
C26_SelectWriter ==
  [][PassStep =>
       \A k \in SelectFound \cap present(pendingFormData'[1]) :
         LET g == formGroupOf[page][k]
             v == ValueFor(k, pendingFormData'[1])
             options == Pages(page)[g].options
         IN ~isUnknownValue(v, ConfidenceFor(k, pendingFormData'[1])) =>
              /\ ResultsOf(summary'[1], k) # {}
              /\ IF nonSentinelMatches(k, v) # {}
                 THEN /\ \E i \in nonSentinelMatches(k, v) : dom'[g].sel = options[i].value
                      /\ eventsOn(log', g) = <<"change">>
                      /\ \A j \in 1..Len(log') : log'[j] # Ev(g, "markUnknown")
                      /\ \A r \in ResultsOf(summary'[1], k) : r.filled
                 ELSE /\ dom'[g].sel = dom[g].sel
                      /\ eventsOn(log', g) = <<>>
                      /\ dom'[g].unk # NoTip
                      /\ \A r \in ResultsOf(summary'[1], k) :
                           ~r.filled /\ r.needsReview]_vars

\* what log l says the writers did to the control of group g, in order: the
\* properties and attributes set and the events dispatched
stepsOn(l, g) ==
  LET onControl(e) == e.g = g /\ e.ev \notin {"markLow", "markUnknown"}
      sel == SelectSeq(l, onControl)
  IN [j \in 1..Len(sel) |-> sel[j].ev]

\* C27: when the text writer fills a control it sets the value and the
\* provenance marker and then dispatches input, change, keyup, blur, these
\* four in this order and nothing else; when it skips (group or control not
\* found, unknown value, collision) it dispatches nothing and leaves the
\* value and the marker of the control as they were
C27_TextWriterEventOrder ==
  [][PassStep =>
       /\ \A k \in TextFound :
            LET g == formGroupOf[page][k]
            IN \A r \in ResultsOf(summary'[1], k) :
                 IF r.filled
                 THEN /\ stepsOn(log', g) = <<"value", "data-autofilled",
                                              "input", "change", "keyup", "blur">>
                      /\ dom'[g].value = ValueFor(k, pendingFormData'[1])
                      /\ dom'[g].marked
                 ELSE /\ stepsOn(log', g) = <<>>
                      /\ dom'[g].value = dom[g].value
                      /\ dom'[g].marked = dom[g].marked
       /\ \A j \in 1..Len(log') :
            \E k \in Found : log'[j].g = formGroupOf[page][k]]_vars

\* two passes over a text control: the first filled it with the four events,
\* the second skipped it without any
C27_Witness ==
  /\ passes = 2
  /\ lastOp.op = "command"
  /\ \E k \in TextFound :
       /\ dom[formGroupOf[page][k]].marked
       /\ dom[formGroupOf[page][k]].value # <<>>
       /\ stepsOn(log, formGroupOf[page][k]) = <<>>
       /\ \E r \in ResultsOf(summary[1], k) : ~r.filled

\* according to log l a writer has set the value, the selection or the checked
\* radio of the control of group g
wroteTo(l, g) == \E j \in 1..Len(l) : l[j] \in {Ev(g, "value"), Ev(g, "checked")}

\* C28: a control into which a writer (text, select or radio) writes a value
\* carries the provenance marker afterwards, and a control gets the marker
\* only in a pass in which a writer writes to it
C28_ProvenanceOnEveryWrite ==
  [][\A g \in DOMAIN dom :
       /\ (PassStep /\ wroteTo(log', g)) => dom'[g].marked
       /\ (dom'[g].marked /\ ~dom[g].marked) => (PassStep /\ wroteTo(log', g))]_vars

\* the entries of the field table that the record has but whose label group
\* or control is not on the page
notLocated(data) == present(data) \ Found

\* C29: when the label group of a field or its control (text input, select,
\* radios) is not on the page, the result of the field is filled = false,
\* needsReview = false, confidence 0, and nothing is done to the document for
\* it: a group that has the label but no control stays as it was, without
\* annotation, and no write, event or annotation is logged outside the groups
\* of the fields that were located
C29_NotFoundIsSilent ==
  [][PassStep =>
       /\ \A k \in notLocated(pendingFormData'[1]) :
            /\ ResultsOf(summary'[1], k) # {}
            /\ \A r \in ResultsOf(summary'[1], k) :
                 ~r.filled /\ ~r.needsReview /\ r.confidence = 0
            /\ formGroupOf[page][k] # 0 =>
                 /\ dom'[formGroupOf[page][k]] = dom[formGroupOf[page][k]]
                 /\ \A j \in 1..Len(log') : log'[j].g # formGroupOf[page][k]
       /\ \A j \in 1..Len(log') :
            \E k \in Found : log'[j].g = formGroupOf[page][k]
       /\ \A g \in DOMAIN dom :
            (\A k \in Found : formGroupOf[page][k] # g) => dom'[g] = dom[g]]_vars

\* a pass over a page that lacks the label group of one field and has the
\* label group of another without its control, while a third field is handled
C29_Witness ==
  /\ lastOp.op = "command"
  /\ \E k1, k2 \in notLocated(pendingFormData[1]) :
       /\ formGroupOf[page][k1] = 0
       /\ formGroupOf[page][k2] # 0
       /\ fieldMappings[k2].kind = "radio"
       /\ \E r \in ResultsOf(summary[1], k2) : ~r.filled /\ ~r.needsReview
  /\ log # <<>>

\* the tooltip of the low-confidence annotation that the writer of entry k
\* makes for confidence c
lowTip(k, c) ==
  <<IF fieldMappings[k].always THEN "AI-generated description" ELSE "Low confidence", c>>

\* the tooltip of the unknown annotation that the writer of entry k makes for
\* value v of confidence c
unknownTip(k, v, c) ==
  IF isUnknownValue(v, c)
  THEN (IF fieldMappings[k].kind = "text"
        THEN <<"could not be determined, fill manually">>
        ELSE <<"could not be determined, select manually">>)
  ELSE <<"could not find matching option">> \o v

\* C30: whatever annotations the passes make on a group, it holds at most one
\* low-confidence warning element and at most one unknown warning element;
\* a pass that annotates the group leaves the tooltip of that annotation on
\* the element of its kind, and the element of the other kind as it was
C30_AnnotationIdempotence ==
  [][PassStep =>
       \A k \in Found :
         LET g == formGroupOf[page][k]
             v == ValueFor(k, pendingFormData'[1])
             c == ConfidenceFor(k, pendingFormData'[1])
         IN /\ Len(dom'[g].low) <= 1
            /\ Len(dom'[g].unk) <= 1
            /\ IF \E j \in 1..Len(log') : log'[j] = Ev(g, "markLow")
               THEN dom'[g].low = <<lowTip(k, c)>>
               ELSE dom'[g].low = dom[g].low
            /\ IF \E j \in 1..Len(log') : log'[j] = Ev(g, "markUnknown")
               THEN dom'[g].unk = <<unknownTip(k, v, c)>>
               ELSE dom'[g].unk = dom[g].unk]_vars

\* a group annotated by two passes in a row, with one element of each kind or
\* with the unknown element replaced
C30_Witness ==
  /\ passes = 2
  /\ lastOp.op = "command"
  /\ edits = 0
  /\ \E g \in DOMAIN dom :
       /\ Len(dom[g].low) = 1
       /\ Len(dom[g].unk) = 1
       /\ \E j \in 1..Len(log) : log[j] = Ev(g, "markUnknown")

\* the pattern matches label text t as it is or with its white space
\* collapsed and trimmed, letter case ignored
matchesLabel(labelPattern, t) ==
  \/ matchFrom(labelPattern, toLowerCase(t))
  \/ matchFrom(labelPattern, toLowerCase(trim(collapseWs(t))))

\* the groups of the page whose label-set matches the pattern of entry k
matchingGroups(k) ==
  {i \in 1..Len(Pages(page)) :
     /\ Pages(page)[i].label # NoLabel
     /\ matchesLabel(fieldMappings[k].labelPattern, Pages(page)[i].label)}

\* C31: for every pattern of the field table, the group the locator returns
\* is a group of the page whose label text matches the pattern (as it is or
\* normalized), and the locator returns not-found only when no group of the
\* page has a matching label-set
C31_FieldLocator ==
  \A k \in 1..Len(fieldMappings) :
    IF formGroupOf[page][k] # 0
    THEN formGroupOf[page][k] \in matchingGroups(k)
    ELSE matchingGroups(k) = {}

\* a pass on a page where the locator found one group through its normalized
\* label text only and found no group for another field
C31_Witness ==
  /\ lastOp.op = "command"
  /\ \E k1, k2 \in present(pendingFormData[1]) :
       /\ formGroupOf[page][k1] # 0
       /\ ~matchFrom(fieldMappings[k1].labelPattern,
                     toLowerCase(Pages(page)[formGroupOf[page][k1]].label))
       /\ formGroupOf[page][k2] = 0
       /\ \E r \in ResultsOf(summary[1], k2) : ~r.filled /\ ~r.needsReview

\* the messages of the errors that end a parse
ParseErrors ==
  {"OpenAI API key not set. Please configure it in the options page.", "OpenAI API error",
   "No content returned from OpenAI", "Unexpected token in JSON"}

\* the worker has reported that parsing failed and the popup has not yet
\* resumed
parseFailed == popup.phase = "response" /\ ~popup.response[1].success

\* the text extraction fails in this step
extractionFails == lastOp' = Op("extractTextFromPDF", 0, "rejected")

\* the attempt ends in this step with message in the popup status, nothing
\* sent to the worker or to the content script, and the form as it was
AbortsWith(message) ==
  /\ popup'.phase = "idle"
  /\ popup'.status = Status("error", message, <<>>)
  /\ ~popup'.loading
  /\ popup'.sends = popup.sends
  /\ popup'.parseCalls = popup.parseCalls
  /\ popup'.fetches = popup.fetches
  /\ dom' = dom
  /\ passes' = passes

\* C32: when the text extraction fails, or the worker reports a failed parse
\* (no key, non-OK response, empty content, malformed JSON), the attempt
\* ends there: the error's message becomes the popup status, no fillForm is
\* sent, the form is unchanged and parseReceipt is not sent again; fillForm
\* is only ever sent in an attempt whose parse succeeded, and an attempt
\* sends parseReceipt at most once
C32_CollaboratorFailureAborts ==
  [][/\ extractionFails => AbortsWith("PDF text extraction failed")
     /\ parseFailed => /\ popup.response[1].error \in ParseErrors
                       /\ AbortsWith(popup.response[1].error)
     /\ (popup'.sends # popup.sends \/ PassStep) =>
          /\ popup.response # <<>>
          /\ popup.response[1].success
     /\ popup'.parseCalls <= popup'.clicks
     /\ popup'.fetches <= popup'.parseCalls]_vars

\* a failed parse or extraction has ended the second attempt, after a first
\* attempt that filled the form
C32_Witness ==
  /\ passes = 1
  /\ popup.clicks = 2
  /\ popup.phase = "idle"
  /\ popup.status # <<>>
  /\ popup.status.type = "error"
  /\ popup.status.message \in ParseErrors \cup {"PDF text extraction failed"}
  /\ popup.sends = 1

\* the watcher is idle: no refill debounce is pending and isRefilling is false
Idle == debounces(timers) = {} /\ ~isRefilling

\* C33: whenever a refill debounce is pending or isRefilling is true, the
\* watcher later reaches a state in which no debounce is pending and
\* isRefilling is false, provided that callbacks that are due are run
C33_ReturnToIdle == ~Idle ~> Idle

\* a debounce scheduled after a navigation trigger has run and left the
\* watcher idle
C33_Witness == lastOp.op = "debounce" /\ Idle /\ navigationTimers = {}

\* the annotations the pass of this step made on group g
marks(g) ==
  {log'[j].ev : j \in {j \in 1..Len(log') :
                         log'[j].g = g /\ log'[j].ev \in {"markLow", "markUnknown"}}}

\* in every result of this step's pass needsReview says which annotation the
\* pass made on the field's group: the unknown one for an unfilled field, the
\* low-confidence one for a filled field, none otherwise; the warning made is
\* in the document
FlagsAgree ==
  \A k \in 1..Len(fieldMappings) :
    \A r \in ResultsOf(summary'[1], k) :
      LET g == formGroupOf[page][k]
      IN /\ marks(g) = (IF ~r.needsReview THEN {}
                        ELSE IF r.filled THEN {"markLow"} ELSE {"markUnknown"})
         /\ r.needsReview /\ r.filled => dom'[g].low # NoTip
         /\ r.needsReview /\ ~r.filled => dom'[g].unk # NoTip

\* the record gives entry k an unknown value, or the pass of this step
\* filled its control at a confidence below 0.8
UnknownOrLow(k) ==
  LET v == ValueFor(k, pendingFormData'[1])
      c == ConfidenceFor(k, pendingFormData'[1])
  IN \/ c < 50 \/ v = <<>> \/ IsMarker(v)
     \/ \E r \in ResultsOf(summary'[1], k) : r.filled /\ r.confidence < 80

\* C34 as stated: needsReview is true exactly when the pass annotated the
\* field's group, and every located field with an unknown value or a fill
\* below 0.8 is annotated by the pass
C34_FlagAnnotationAgreement ==
  [][PassStep =>
       /\ FlagsAgree
       /\ \A k \in Found : UnknownOrLow(k) => marks(formGroupOf[page][k]) # {}]_vars

\* C34 amended: needsReview is true exactly when the pass annotated the
\* field's group, and every located field with an unknown value or a fill
\* below 0.8 whose control held no content foreign to the system is
\* annotated by the pass
C34_FlagAnnotationAgreementAmended ==
  [][PassStep =>
       /\ FlagsAgree
       /\ \A k \in Found :
            UnknownOrLow(k) /\ ~HoldsForeign(dom, formGroupOf[page][k])
              => marks(formGroupOf[page][k]) # {}]_vars

\* a pass has left an unknown annotation on a select whose record value is
\* unknown, with needsReview=true
C34_Witness ==
  /\ lastOp.op = "command"
  /\ \E k \in Found :
       /\ fieldMappings[k].kind = "select"
       /\ ConfidenceFor(k, pendingFormData[1]) = 49
       /\ dom[formGroupOf[page][k]].unk # NoTip
       /\ \E j \in 1..Len(log) : log[j] = Ev(formGroupOf[page][k], "markUnknown")
       /\ \E r \in ResultsOf(summary[1], k) : ~r.filled /\ r.needsReview

\* the entries of the field table for the payment method whose radios are
\* on the page
PaymentFound == {k \in RadioFound : fieldMappings[k].key = "payment_method"}

\* the pass of this step has checked a radio of group g
checks(g) == \E j \in 1..Len(log') : log'[j] = Ev(g, "checked")

\* C35: whatever the order of the payment choices, a pass with
\* 'club_card_with_extra' never checks the choice 'Club Spending Card
\* (without additional funding)', and a pass with 'club_card_no_extra' never
\* checks the choice 'Club Spending Card (with additional funding)'
C35_PaymentMappingOrderIndependent ==
  [][PassStep =>
       \A k \in PaymentFound \cap present(pendingFormData'[1]) :
         LET g == formGroupOf[page][k]
             v == ValueFor(k, pendingFormData'[1])
         IN checks(g) =>
              /\ v = <<"club_card_with_extra">> =>
                   Pages(page)[g].radios[dom'[g].checked] # PaymentRadios[2]
              /\ v = <<"club_card_no_extra">> =>
                   Pages(page)[g].radios[dom'[g].checked] # PaymentRadios[1]]_vars

\* the pending resets of isRefilling
resets(T) == {t \in T : t.kind = "refillingReset"}

\* the watcher invokes fillExpenseForm in this step
WatcherPass == lastOp' = Op("debounce", 0, "refilled")

\* C36: at most one refill debounce (a single callback) is pending at any
\* time, whatever the interleaving of clicks, URL changes and popstate events
\* and however many click listeners are registered; a pass of the watcher
\* starts only while isRefilling is false and sets it for 2000 ms: it is
\* reset only by the callback that the pass scheduled 2000 ms ahead, so two
\* passes of the watcher start at least 2000 ms apart
C36_WatcherPassesSpaced ==
  [][/\ Cardinality(debounces(timers')) <= 1
     /\ \A t \in debounces(timers') : t.n = 1
     /\ WatcherPass =>
          /\ ~isRefilling
          /\ isRefilling'
          /\ resets(timers') = {Timer("refillingReset", now + REFILLING_RESET_DELAY, 1)}
     /\ (isRefilling /\ ~isRefilling') =>
          /\ lastOp'.op = "refillingReset"
          /\ \E t \in resets(timers) : t.due <= now
     /\ ~isRefilling' => resets(timers') = {}]_vars

\* a click handled by duplicated click listeners has left one debounce
\* pending
C36_Witness ==
  /\ clickListeners > 1
  /\ lastOp.op = "nextClick"
  /\ lastOp.outcome = "scheduled"
  /\ Cardinality(debounces(timers)) = 1
  /\ \E t \in timers : t.kind = "nextClick"

\* the files for which this step makes an attachment attempt or schedules
\* the delayed check of one
attemptedFiles ==
  {t.file : t \in {t \in uploads' \ uploads : t.kind = "uploadSettle"}}
    \cup (IF attempt' # attempt THEN {attempt'.file} ELSE {})

\* C37: the pending attachment is cleared only by an attempt made for the
\* file the slot holds: by the delayed success check of an attempt started
\* for that file, or in the step that takes the file out of the slot to
\* attach it
C37_NoStaleClear ==
  [][(pendingPDFFileData # <<>> /\ pendingPDFFileData' = <<>>) =>
       IF lastOp'.op = "uploadSettle"
       THEN lastOp'.g = pendingPDFFileData[1]
       ELSE pendingPDFFileData[1] \in attemptedFiles]_vars

\* C38: the upload button of a page is cloned and replaced at most once,
\* whatever the sequence of observer callbacks, checkAndUploadPendingFile calls
\* and uploadPDFFile calls: the button in the document is the host's own
\* node or its first clone, which carries the intercepting click handler
C38_InterceptedOnce == upload.button <= 1

\* C39: pendingFormData is written only by the fill-command handler, which
\* stores the record its pass runs with; once set it is never cleared; a pass
\* of the watcher runs with the stored record, leaves it in place and is given
\* no file: it stores and schedules nothing for the attachment agent
C39_PendingRecordSlot ==
  [][/\ pendingFormData' # pendingFormData => lastOp'.op = "command"
     /\ lastOp'.op = "command" =>
          /\ pendingFormData' # <<>>
          /\ summary' =
               <<fillExpenseForm(page, dom, pendingFormData'[1], tzWest).summary>>
     /\ pendingFormData # <<>> => pendingFormData' # <<>>
     /\ WatcherPass =>
          /\ pendingFormData' = pendingFormData
          /\ summary' =
               <<fillExpenseForm(page, dom, pendingFormData[1], tzWest).summary>>
          /\ pendingPDFFileData' = pendingPDFFileData
          /\ uploads' = uploads]_vars

\* after two fill commands with different records and a navigation the
\* debounce callback finds the record of the second command
C39_Witness ==
  /\ lastOp.op = "debounce"
  /\ lastOp.outcome # "idle"
  /\ passes = 2
  /\ pendingFormData = <<UnknownRecord>>
  /\ summary = <<fillExpenseForm(page, BlankDom(page), UnknownRecord, tzWest).summary>>

====
